---- MODULE Spec2Model ----
(***************************************************************************)
(* Model of the IPC server core of the nx library:                         *)
(*   - mem::Shared<T> / ReferenceCount            (src/src/mem.rs)         *)
(*   - DomainTable, ServerHolder, ServerManager   (src/src/ipc/server.rs)  *)
(*   - Binder, convert_nv_error_code              (src/src/gpu/binder.rs)  *)
(*   - the generated command adapters             (src/src/macros/ipc/sf.rs)*)
(*                                                                         *)
(* These specifications share this module:                                 *)
(*   SpecDomain  a session holder and the DomainTable it refers to, driven *)
(*               through the table's public operations;                    *)
(*   SpecShared  cells of mem::Shared over a small heap;                   *)
(*   SpecReset   the same cells, Shared::reset included;                   *)
(*   Spec        the ServerManager: register_*, and process() steps of     *)
(*               loop_process;                                             *)
(*   SpecBinder  the methods of Binder over replies of the driver;         *)
(*   SpecAdapter the response passes of a generated command adapter;       *)
(*   SpecTable   the command loop over the command tables of an interface. *)
(* Each specification changes only its own variables.                      *)
(***************************************************************************)
EXTENDS Integers, Sequences, FiniteSets, TLC

VARIABLES
    \* ---- SpecDomain: one holder and its DomainTable
    table,          \* DomainTable::table   : Vec<DomainObjectId>
    domains,        \* DomainTable::domains : Vec<ServerHolder> (id, object)
    dholder,        \* the base holder: info.domain_object_id, is_mitm_service, ...
    dlast,          \* the last DomainTable call: operation, argument, result, state before
    \* ---- SpecShared: Shared<T> cells
    cells,          \* slot -> a Shared<T> cell: live, object, ref_count.holder, view,
                    \* and whether reset was called on it
    objects,        \* object allocation -> allocated, number of times dropped
    counters,       \* counter allocation -> allocated, the i64, number of deletes
    ub,             \* a freed counter was read or written (use after free)
    slast,          \* the last Shared operation
    \* ---- Spec: the ServerManager
    server_holders, \* ServerManager::server_holders : Vec<ServerHolder>
    dtables,        \* the DomainTables the holders share: id -> table, domains
    msg_buffer,     \* the thread's 256-byte IPC message buffer
    version,        \* version::get_version(), which CommandMetadata::matches compares with
    P,              \* the const parameter P: size of the pointer buffer
    loop_state,     \* "setup", "looping" (in loop_process), "returned", "panicked",
                    \* "torn_down", "panicked_in_drop"
    loop_result,    \* what loop_process returned
    calls,          \* the calls of process() so far
    step,           \* what the last process() call did
    \* ---- SpecBinder: a Binder and the driver behind it
    weak_refs,      \* the driver's weak count of the binder handle
    strong_refs,    \* the driver's strong count of the binder handle
    driver_calls,   \* the calls the last method made to IHOSBinderDriver, in order
    binder_ret,     \* the last method of Binder: its name, Result, outputs, reply
    \* ---- SpecAdapter: a generated command adapter
    adapter_ret,    \* the last adapter call: the outputs, and the context it left
    \* ---- SpecTable: the command loop over a command table
    lookup_ret      \* a table and a request id, and what the loop did with them

dvars == <<table, domains, dholder, dlast>>
svars == <<cells, objects, counters, ub, slast>>
mvars == <<server_holders, dtables, msg_buffer, version, P,
           loop_state, loop_result, calls, step>>

bvars == <<weak_refs, strong_refs, driver_calls, binder_ret>>

avars == <<adapter_ret, lookup_ret>>

\* what the steps of each specification leave alone
outside_domain == <<svars, mvars, bvars, avars>>
outside_shared == <<dvars, mvars, bvars, avars>>
outside_manager == <<dvars, svars, bvars, avars>>
outside_binder == <<dvars, svars, mvars, avars>>
outside_adapter == <<dvars, svars, mvars, bvars, lookup_ret>>
outside_table == <<dvars, svars, mvars, bvars, adapter_ret>>

\* ---------------------------------------------------------------- bounds

\* Largest DomainObjectId a caller passes to allocate_specific_id /
\* deallocate_domain, and an upstream service returns.
MaxId == 5
\* allocate_* are not called once the table holds this many IDs.
MaxTable == 3
\* Cells of Shared<T> that exist over the whole run.
MaxCells == 4
\* Heap allocations (objects, and counters) made over the whole run.
MaxAllocs == 2
\* wait::MAX_OBJECT_COUNT, the length of ServerManager::wait_handles. The
\* library sets 0x40; the manager never compares a length against it, so the
\* model scales it down to keep the holders list small.
MAX_COUNT == 2
\* No holder is added (register_*, accept, clone, emitted session) once the
\* list holds this many.
MaxHolders == MAX_COUNT + 1
\* Session objects one command adapter returns.
MaxEmit == 1
\* In the manager, a domain table holds at most this many IDs, and domain
\* object IDs on the wire (requests, upstream conversions) are at most this.
MaxObjects == 2
\* loop_process is followed for this many calls of process().
MaxCalls == 3
\* Servers and sessions registered before loop_process is called.
MaxRegistered == 2
\* The driver's counts of the binder handle stay within 0..MaxRefs.
MaxRefs == 2
\* Output parameters of one command.
MaxOutputs == 3
\* Entries of a command table.
MaxEntries == 2

\* ---------------------------------------------------------------- results

Ok(v) == [ok |-> TRUE, val |-> v]
Err(rc) == [ok |-> FALSE, val |-> rc]

\* ================================================================
\* DomainTable (server.rs 170-215)
\* ================================================================

Range(s) == {s[i] : i \in 1..Len(s)}

\* Vec::contains
Contains(t, id) == \E i \in 1..Len(t) : t[i] = id

\* ServerHolder::new_domain_session(0, domain_object_id, object): the fields
\* of the holder the table's operations read.
new_domain_session(domain_object_id, object) ==
    [domain_object_id |-> domain_object_id, server |-> object]

\* The loop of allocate_id: the first current_id, counting up from the
\* start value, that the table does not contain.
RECURSIVE allocate_id_loop(_, _)
allocate_id_loop(t, current_id) ==
    IF ~Contains(t, current_id) THEN current_id
    ELSE allocate_id_loop(t, current_id + 1)

allocate_id_LenPlusOne(t) ==
    [table |-> Append(t, Len(t) + 1), ret |-> Ok(Len(t) + 1)]

\* DomainTable::allocate_id
allocate_id(t) ==
    LET id == allocate_id_loop(t, 1)
    IN  [table |-> Append(t, id), ret |-> Ok(id)]

allocate_specific_id_NoCheck(t, id) ==
    [table |-> Append(t, id), ret |-> Ok(id)]

\* DomainTable::allocate_specific_id
allocate_specific_id(t, id) ==
    IF ~Contains(t, id)
    THEN [table |-> Append(t, id), ret |-> Ok(id)]
    ELSE [table |-> t, ret |-> Err("ObjectIdAlreadyAllocated")]

\* DomainTable::find_domain: the object of the first holder bound to id
find_domain(ds, id) ==
    IF \E i \in 1..Len(ds) : ds[i].domain_object_id = id
    THEN LET i == CHOOSE i \in 1..Len(ds) :
                      /\ ds[i].domain_object_id = id
                      /\ \A j \in 1..(i-1) : ds[j].domain_object_id # id
         IN  Ok(ds[i].server)
    ELSE Err("DomainNotFound")

deallocate_domain_TableOnly(t, ds, id) ==
    [table |-> SelectSeq(t, LAMBDA x : x # id), domains |-> ds]

\* DomainTable::deallocate_domain: Vec::retain on both lists
deallocate_domain(t, ds, id) ==
    [table   |-> SelectSeq(t, LAMBDA x : x # id),
     domains |-> SelectSeq(ds, LAMBDA h : h.domain_object_id # id)]

\* ObjectInfo::is_domain of a holder
is_domain(domain_object_id) == domain_object_id # 0

\* ---------------------------------------------------------------- SpecDomain

NoCall == [ret |-> Ok(0),
           op |-> "none",
           arg |-> 0,
           pre_table |-> <<>>,
           pre_domains |-> <<>>]

Call(op, arg, ret) ==
    [ret |-> ret,
     op |-> op,
     arg |-> arg,
     pre_table |-> table,
     pre_domains |-> domains]

\* DomainTable::new(), held by a session holder that is not a domain yet.
DomainInit ==
    /\ table = <<>>
    /\ domains = <<>>
    /\ dholder \in {[domain_object_id |-> 0, is_mitm_service |-> m,
                     fwd_domain_object_id |-> 0, has_table |-> FALSE]
                    : m \in BOOLEAN}
    /\ dlast = NoCall

\* table.allocate_id()
AllocateId ==
    /\ Len(table) < MaxTable
    /\ LET r == allocate_id(table)
       IN  /\ table' = r.table
           /\ dlast' = Call("allocate_id", 0, r.ret)
    /\ UNCHANGED <<domains, dholder, outside_domain>>

\* table.allocate_specific_id(id)
AllocateSpecificId ==
    \E id \in 0..MaxId :
        \* a call that fails does not grow the table
        /\ Len(table) < MaxTable \/ Contains(table, id)
        /\ LET r == allocate_specific_id(table, id)
           IN  /\ table' = r.table
               /\ dlast' = Call("allocate_specific_id", id, r.ret)
        /\ UNCHANGED <<domains, dholder, outside_domain>>

\* table.deallocate_domain(id)
DeallocateDomain ==
    \E id \in 0..MaxId :
        /\ LET r == deallocate_domain(table, domains, id)
           IN  /\ table' = r.table
               /\ domains' = r.domains
        /\ dlast' = Call("deallocate_domain", id, Ok(0))
        /\ UNCHANGED <<dholder, outside_domain>>

\* ResponseCommandParameter for mem::Shared<S>::before_response_write, the
\* branch taken when the addressed object is a domain (server.rs 121-127):
\* allocate_id, push_domain_object (which may fail), domains.push. The
\* session object emitted is object 1 (the table never looks at it).
EmitDomainObject ==
    \E push_ok \in BOOLEAN, object \in {1} :
        /\ is_domain(dholder.domain_object_id)
        /\ dholder.has_table
        /\ Len(table) < MaxTable
        /\ LET r == allocate_id(table)
           IN  /\ table' = r.table
               /\ IF push_ok
                  THEN /\ domains' = Append(domains,
                                        new_domain_session(r.ret.val, object))
                       /\ dlast' = Call("emit", object, r.ret)
                  ELSE /\ domains' = domains
                       /\ dlast' = Call("emit", object, Err("push_domain_object"))
        /\ UNCHANGED <<dholder, outside_domain>>

\* ServerHolder::convert_to_domain (server.rs 278-297). upstream is the
\* result of mitm_forward_info.convert_current_object_to_domain().
ConvertToDomain ==
    \E upstream \in {Ok(x) : x \in 1..MaxId} \cup {Err("upstream")} :
        /\ UNCHANGED outside_domain
        /\ IF is_domain(dholder.domain_object_id)
           THEN /\ dlast' = Call("convert_to_domain", 0, Err("AlreadyDomain"))
                /\ UNCHANGED <<table, domains, dholder>>
           ELSE \* dom_table = Shared::new(DomainTable::new()); the holder now
                \* refers to the new table
                IF dholder.is_mitm_service
                THEN IF upstream.ok
                     THEN LET r == allocate_specific_id(<<>>, upstream.val)
                          IN  /\ table' = r.table
                              /\ domains' = <<>>
                              /\ dholder' = [dholder EXCEPT
                                     !.has_table = TRUE,
                                     !.fwd_domain_object_id = upstream.val,
                                     !.domain_object_id =
                                         IF r.ret.ok THEN r.ret.val ELSE @]
                              /\ dlast' = Call("convert_to_domain", upstream.val, r.ret)
                     ELSE /\ table' = <<>>
                          /\ domains' = <<>>
                          /\ dholder' = [dholder EXCEPT !.has_table = TRUE]
                          /\ dlast' = Call("convert_to_domain", 0, upstream)
                ELSE LET r == allocate_id(<<>>)
                     IN  /\ table' = r.table
                         /\ domains' = <<>>
                         /\ dholder' = [dholder EXCEPT
                                !.has_table = TRUE,
                                !.domain_object_id = r.ret.val]
                         /\ dlast' = Call("convert_to_domain", 0, r.ret)

DomainNext ==
    \/ AllocateId
    \/ AllocateSpecificId
    \/ DeallocateDomain
    \/ EmitDomainObject
    \/ ConvertToDomain

\* ================================================================
\* mem::Shared<T> and ReferenceCount (mem.rs 12-127)
\* ================================================================

Null == 0
Slots == 1..MaxCells
Allocs == 1..MaxAllocs

DeadCell ==
    [object |-> Null, live |-> FALSE, holder |-> Null, view |-> "T", reset |-> FALSE]

\* the next allocation the heap hands out
FreshObject == CHOOSE a \in Allocs :
    /\ ~objects[a].allocated
    /\ \A b \in 1..(a-1) : objects[b].allocated
FreshCounter == CHOOSE k \in Allocs :
    /\ ~counters[k].allocated
    /\ \A j \in 1..(k-1) : counters[j].allocated
CanAllocObject == \E a \in Allocs : ~objects[a].allocated
CanAllocCounter == \E k \in Allocs : ~counters[k].allocated

CounterFreed(k) == counters[k].frees > 0

\* ReferenceCount::use_count
ReferenceCount_use_count(holder) ==
    IF holder = Null THEN 0 ELSE counters[holder].value

ReferenceCount_acquire_NoIncrement(holder, ptr) ==
    IF ptr # Null
    THEN IF holder = Null
         THEN [counters |-> [counters EXCEPT ![FreshCounter] =
                                [allocated |-> TRUE, frees |-> 0, value |-> 1]],
               holder   |-> FreshCounter]
         ELSE [counters |-> counters, holder |-> holder]
    ELSE [counters |-> counters, holder |-> holder]

\* ReferenceCount::acquire(ptr) on a ReferenceCount whose field is holder:
\* the new value of the field and of the heap of counters.
ReferenceCount_acquire(holder, ptr) ==
    IF ptr # Null
    THEN IF holder = Null
         THEN [counters |-> [counters EXCEPT ![FreshCounter] =
                                [allocated |-> TRUE, frees |-> 0, value |-> 1]],
               holder   |-> FreshCounter]
         ELSE [counters |-> [counters EXCEPT ![holder].value = @ + 1],
               holder   |-> holder]
    ELSE [counters |-> counters, holder |-> holder]

\* ReferenceCount::release(ptr): decrement; at zero drop the object, delete
\* the counter and null the field.
ReferenceCount_release(holder, ptr) ==
    IF holder # Null
    THEN LET v == counters[holder].value - 1
         IN  IF v = 0
             THEN [objects  |-> [objects EXCEPT ![ptr].frees = @ + 1],
                   counters |-> [counters EXCEPT ![holder].value = v,
                                                 ![holder].frees = @ + 1],
                   holder   |-> Null]
             ELSE [objects  |-> objects,
                   counters |-> [counters EXCEPT ![holder].value = v],
                   holder   |-> holder]
    ELSE [objects |-> objects, counters |-> counters, holder |-> holder]

\* Shared::use_count
use_count(c) == ReferenceCount_use_count(cells[c].holder)

SharedOp(op, c, d) == [op |-> op, cell |-> c, new_cell |-> d]

SharedInit ==
    /\ cells = [c \in Slots |-> DeadCell]
    /\ objects = [a \in Allocs |-> [allocated |-> FALSE, frees |-> 0]]
    /\ counters = [k \in Allocs |-> [allocated |-> FALSE, frees |-> 0, value |-> 0]]
    /\ ub = FALSE
    /\ slast = SharedOp("none", 0, 0)

\* Shared::new(var): box the value, then acquire on a null ReferenceCount.
SharedNew ==
    \E d \in Slots :
        /\ ~ub
        /\ ~cells[d].live
        /\ CanAllocObject /\ CanAllocCounter
        /\ LET object == FreshObject
               r == ReferenceCount_acquire(Null, object)
           IN  /\ objects' = [objects EXCEPT ![object].allocated = TRUE]
               /\ counters' = r.counters
               /\ cells' = [cells EXCEPT ![d] =
                      [object |-> object,
                       live |-> TRUE,
                       holder |-> r.holder,
                       view |-> "T",
                       reset |-> FALSE]]
        /\ slast' = SharedOp("new", 0, d)
        /\ UNCHANGED <<ub, outside_shared>>

\* Shared::copy / Clone::clone (view kept) and Shared::to<U> (view U): the
\* new cell copies object and ref_count, then acquires.
CopyOrTo(op, to_view) ==
    \E c \in Slots, d \in Slots :
        /\ ~ub
        /\ cells[c].live
        /\ ~cells[c].reset     \* after reset a cell is followed to its drop only
        /\ ~cells[d].live
        /\ cells[c].holder = Null => CanAllocCounter
        /\ IF cells[c].holder # Null /\ CounterFreed(cells[c].holder)
           THEN \* *self.holder += 1 on a deleted counter
                /\ ub' = TRUE
                /\ UNCHANGED <<cells, objects, counters>>
           ELSE LET r == ReferenceCount_acquire(cells[c].holder, cells[c].object)
                IN  /\ counters' = r.counters
                    /\ cells' = [cells EXCEPT ![d] =
                           [object |-> cells[c].object,
                            live |-> TRUE,
                            holder |-> r.holder,
                            view |-> IF to_view = "same" THEN cells[c].view
                                ELSE to_view,
                            reset |-> FALSE]]
                    /\ UNCHANGED <<objects, ub>>
        /\ slast' = SharedOp(op, c, d)
        /\ UNCHANGED outside_shared

SharedClone == CopyOrTo("clone", "same")

SharedTo == CopyOrTo("to", "U")

\* Drop for Shared<T>: release; the cell is gone.
SharedDrop ==
    \E c \in Slots :
        /\ ~ub
        /\ cells[c].live
        /\ IF cells[c].holder # Null /\ CounterFreed(cells[c].holder)
           THEN \* *self.holder -= 1 on a deleted counter
                /\ ub' = TRUE
                /\ UNCHANGED <<cells, objects, counters>>
           ELSE LET r == ReferenceCount_release(cells[c].holder, cells[c].object)
                IN  /\ counters' = r.counters
                    /\ objects' = r.objects
                    /\ cells' = [cells EXCEPT ![c] = DeadCell]
                    /\ UNCHANGED ub
        /\ slast' = SharedOp("drop", c, 0)
        /\ UNCHANGED outside_shared

SharedNext ==
    \/ SharedNew
    \/ SharedClone
    \/ SharedTo
    \/ SharedDrop

\* Shared::reset (mem.rs 104-106): release, and nothing else; the cell stays,
\* with its object pointer, and with the field release left in ref_count
\* (null only when this release freed the object). A cell is reset once.
SharedReset ==
    \E c \in Slots :
        /\ ~ub
        /\ cells[c].live
        /\ ~cells[c].reset
        /\ IF cells[c].holder # Null /\ CounterFreed(cells[c].holder)
           THEN \* *self.holder -= 1 on a deleted counter
                /\ ub' = TRUE
                /\ UNCHANGED <<cells, objects, counters>>
           ELSE LET r == ReferenceCount_release(cells[c].holder, cells[c].object)
                IN  /\ counters' = r.counters
                    /\ objects' = r.objects
                    /\ cells' = [cells EXCEPT ![c].holder = r.holder,
                                              ![c].reset = TRUE]
                    /\ UNCHANGED ub
        /\ slast' = SharedOp("reset", c, 0)
        /\ UNCHANGED outside_shared

\* the operations of Shared<T>, reset included
ResetNext ==
    \/ SharedNext
    \/ SharedReset

\* ================================================================
\* ServerHolder and ServerManager (server.rs 217-802)
\* ================================================================

\* svc::INVALID_HANDLE
INVALID_HANDLE == 0

\* a ServerHolder: the fields the manager reads
\*   server 0 is None; domain_table 0 is None; factory is which of
\*   new_server_fn / new_mitm_server_fn is Some; service_name "" is empty
Holder(handle, handle_type, server, factory, fwd_handle, is_mitm, name, dt, id) ==
    [domain_object_id |-> id,
     server |-> server,
     is_mitm_service |-> is_mitm,
     fwd_domain_object_id |-> 0,
     handle |-> handle,
     handle_type |-> handle_type,
     factory |-> factory,
     fwd_handle |-> fwd_handle,
     service_name |-> name,
     domain_table |-> dt]

\* ServerHolder::new_session
new_session(handle, object) ==
    Holder(handle, "Session", object, "none", INVALID_HANDLE, FALSE, "", 0, 0)

\* ServerHolder::new_server
new_server(handle, service_name) ==
    Holder(handle, "Server", 0, "server", INVALID_HANDLE, FALSE, service_name, 0, 0)

\* ServerHolder::new_mitm_server
new_mitm_server(handle, service_name) ==
    Holder(handle, "Server", 0, "mitm", INVALID_HANDLE, TRUE, service_name, 0, 0)

\* ServerHolder::make_new_session: Err(SessionClosed) without new_server_fn
make_new_session(self, handle, object) ==
    IF self.factory = "server"
    THEN [rc |-> "Ok",
          holder |-> Holder(handle, "Session", object, self.factory,
                            INVALID_HANDLE, self.is_mitm_service, "", 0, 0)]
    ELSE [rc |-> "SessionClosed", holder |-> self]

make_new_mitm_session_NoForward(self, handle, forward_handle, object) ==
    make_new_session([self EXCEPT !.factory = "server"], handle, object)

\* ServerHolder::make_new_mitm_session
make_new_mitm_session(self, handle, forward_handle, object) ==
    IF self.factory = "mitm"
    THEN [rc |-> "Ok",
          holder |-> Holder(handle, "Session", object, self.factory,
                            forward_handle, self.is_mitm_service, "", 0, 0)]
    ELSE [rc |-> "SessionClosed", holder |-> self]

clone_self_NewServer(self, handle, forward_handle) ==
    [self EXCEPT !.handle = handle,
                 !.handle_type = "Session",
                 !.server = 0,
                 !.fwd_handle = forward_handle,
                 !.is_mitm_service = (forward_handle # 0),
                 !.service_name = ""]

\* ServerHolder::clone_self
clone_self(self, handle, forward_handle) ==
    [self EXCEPT !.handle = handle,
                 !.handle_type = "Session",
                 !.fwd_handle = forward_handle,
                 !.is_mitm_service = (forward_handle # 0),
                 !.service_name = ""]

\* ObjectInfo::from_handle, from which every holder's info is made: the
\* object owns its kernel handle
owns_handle(self) == self.handle # INVALID_HANDLE

\* what the service manager answers while a holder is closed: every call
\* succeeds, or the connection to it, the unregistration or detach_client
\* fails
SmResults == {"Ok", "ConnectError", "UnregisterError", "DetachError"}

\* svc::close_handle: the kernel closes a handle that is open
close_handle(handle) == IF handle # INVALID_HANDLE THEN "Ok" ELSE "InvalidHandle"

\* ServerHolder::close (server.rs 299-316) under the service manager's answer
\* `sm`: a named holder is unregistered (atmosphere_uninstall_mitm for a MITM
\* service) and the client detached, each `?` returning the error; then the
\* owned handle is closed with `?`, then the forward session.  The record
\* holds the Result and what was done before the return.
close(self, sm) ==
    LET named == self.service_name # ""
        sm_rc == IF named THEN sm ELSE "Ok"
        handle_rc == IF owns_handle(self) THEN close_handle(self.handle) ELSE "Ok"
    IN  [rc |-> IF sm_rc # "Ok" THEN sm_rc ELSE handle_rc,
         handle |-> self.handle,
         unregistered |-> IF named /\ sm \in {"Ok", "DetachError"}
                          THEN self.service_name ELSE "",
         closed |-> IF sm_rc = "Ok" /\ owns_handle(self) /\ handle_rc = "Ok"
                    THEN <<self.handle>> ELSE <<>>,
         forward_closed |-> IF sm_rc = "Ok" /\ handle_rc = "Ok"
                               /\ self.fwd_handle # INVALID_HANDLE
                            THEN <<self.fwd_handle>> ELSE <<>>]

\* Drop for ServerHolder (server.rs 318-322): self.close().unwrap()
drop(self, sm) ==
    LET done == close(self, sm)
    IN  [rc |-> done.rc,
         handle |-> done.handle,
         unregistered |-> done.unregistered,
         closed |-> done.closed,
         forward_closed |-> done.forward_closed,
         panic |-> done.rc # "Ok"]

\* The holders of a list dropped in order, up to the first drop that panics
RECURSIVE drop_all(_, _)
drop_all(holders, sm) ==
    IF holders = <<>> THEN <<>>
    ELSE IF drop(Head(holders), sm).panic THEN << drop(Head(holders), sm) >>
    ELSE << drop(Head(holders), sm) >> \o drop_all(Tail(holders), sm)

\* the kernel handles the holders own
OpenHandles(holders) ==
    ({holders[i].handle : i \in 1..Len(holders)}
        \cup {holders[i].fwd_handle : i \in 1..Len(holders)}) \ {INVALID_HANDLE}

\* the handle the kernel gives out next: one that is not open (the lowest),
\* and not in `taken` (handles created earlier in the same call)
NewHandle(holders, taken) ==
    LET lowest(used) ==
            CHOOSE h \in 1..(Cardinality(used) + 1) :
                h \notin used /\ \A g \in 1..(h-1) : g \in used
    IN  lowest(OpenHandles(holders) \cup taken)

\* the session objects holders and domain tables refer to
LiveObjects(holders, tabs) ==
    ({holders[i].server : i \in 1..Len(holders)}
        \cup UNION {{tabs[t].domains[i].server : i \in 1..Len(tabs[t].domains)}
                    : t \in DOMAIN tabs}) \ {0}

\* a session object made by a factory or returned by a handler
NewObject(holders, tabs) ==
    LET lowest(live) ==
            CHOOSE o \in 1..(Cardinality(live) + 1) :
                o \notin live /\ \A q \in 1..(o-1) : q \in live
    IN  lowest(LiveObjects(holders, tabs))

TableIds == 1..(MaxHolders + 1)
EmptyTable == [table |-> <<>>, domains |-> <<>>]

UsedTables(holders) ==
    {holders[i].domain_table : i \in 1..Len(holders)} \ {0}

\* mem::Shared::new(DomainTable::new())
NewTable(holders) ==
    CHOOSE t \in TableIds :
        /\ t \notin UsedTables(holders)
        /\ \A u \in 1..(t-1) : u \in UsedTables(holders)

\* Drop of the last mem::Shared<DomainTable>: the table is gone
DropUnusedTables(holders, tabs) ==
    [t \in TableIds |-> IF t \in UsedTables(holders) THEN tabs[t] ELSE EmptyTable]

wait_handles_of(holders) ==
    SelectSeq([i \in 1..Len(holders) |-> holders[i].handle],
              LAMBDA h : h # 0)

\* ServerManager::prepare_wait_handles: the nonzero handles in holder order;
\* writing wait_handles[MAX_COUNT] is an index out of bounds, a panic.
prepare_wait_handles(holders) ==
    IF Len(wait_handles_of(holders)) > MAX_COUNT
    THEN [panic |-> TRUE, handles |-> <<>>]
    ELSE [panic |-> FALSE, handles |-> wait_handles_of(holders)]

\* the position of the first holder whose info.handle is handle (the loops of
\* process_signaled_handle, handle_request_command, handle_control_command);
\* Len + 1 when there is none
FindHolder(holders, handle) ==
    IF \E i \in 1..Len(holders) : holders[i].handle = handle
    THEN CHOOSE i \in 1..Len(holders) :
            /\ holders[i].handle = handle
            /\ \A j \in 1..(i-1) : holders[j].handle # handle
    ELSE Len(holders) + 1

Remove_Last(seq, index) == SubSeq(seq, 1, Len(seq) - 1)

\* Vec::remove(index)
Remove(seq, index) ==
    [i \in 1..(Len(seq) - 1) |-> IF i < index THEN seq[i] ELSE seq[i + 1]]

\* ---------------------------------------------------------------- messages

\* Contents of the message buffer. kind is
\*   "empty"     nothing written yet
\*   "message"   a command as the kernel delivered it: its CMIF command type,
\*               request id, domain header (command, object id), and whether
\*               its data header parses
\*   "static"    the receive-static command written before a receive (P > 0)
\*   "scratch"   bytes left by a handler or an adapter that used the buffer
\*   "response"  a CMIF response of command type `type` carrying result rc
\*               and, for a control command, the value it returns (out)
\*   "upstream"  the reply of the upstream service to the request it was
\*               sent: it echoes the request's fields
Msg(kind, type, rq_id, domain_cmd, object_id, valid, rc, out) ==
    [rc |-> rc,
     kind |-> kind,
     type |-> type,
     rq_id |-> rq_id,
     domain_cmd |-> domain_cmd,
     object_id |-> object_id,
     valid |-> valid,
     out |-> out]

EmptyBuffer == Msg("empty", "Invalid", 0, "Invalid", 0, TRUE, "", 0)
StaticCommand == Msg("static", "Invalid", 0, "Invalid", 0, TRUE, "", 0)
Scratch == Msg("scratch", "Invalid", 0, "Invalid", 0, TRUE, "", 0)

\* cmif::server::write_request_command_response_on_msg_buffer,
\* write_control_command_response_on_msg_buffer,
\* write_close_command_response_on_msg_buffer
Response(type, rc) == Msg("response", type, 0, "Invalid", 0, TRUE, rc, 0)
ResponseWith(type, rc, out) == Msg("response", type, 0, "Invalid", 0, TRUE, rc, out)

\* what the upstream service leaves in the buffer for the request it saw
UpstreamReply(seen) == [seen EXCEPT !.kind = "upstream"]

\* cmif::server::read_command_from_msg_buffer
read_command_from_msg_buffer(buf) == buf.type

\* cmif::server::read_request_command_from_msg_buffer: the domain header is
\* read only on a domain session
read_request_command_from_msg_buffer(info_is_domain, buf) ==
    IF ~buf.valid THEN [rc |-> "InvalidInputHeader", rq_id |-> 0,
                        domain_cmd |-> "Invalid", object_id |-> 0]
    ELSE IF info_is_domain
         THEN [rc |-> "Ok", rq_id |-> buf.rq_id,
               domain_cmd |-> buf.domain_cmd, object_id |-> buf.object_id]
         ELSE [rc |-> "Ok", rq_id |-> buf.rq_id,
               domain_cmd |-> "Invalid", object_id |-> 0]

\* cmif::server::read_control_command_from_msg_buffer
read_control_command_from_msg_buffer(buf) ==
    IF ~buf.valid THEN [rc |-> "InvalidInputHeader", rq_id |-> 0]
    ELSE [rc |-> "Ok", rq_id |-> buf.rq_id]

\* The command table every session object of the model exposes
\* (get_command_metadata_table): request id 0 has one entry per version
\* interval; the entries of request id 1 are for an older and for a newer
\* system version than the one running.
CommandTable ==
    << [rq_id |-> 0, min |-> 1, max |-> 1],
       [rq_id |-> 0, min |-> 2, max |-> 2],
       [rq_id |-> 1, min |-> 1, max |-> 1],
       [rq_id |-> 1, min |-> 3, max |-> 3] >>

\* the system version running (version::get_version), and the request ids
\* a client sends: one the table has at this version, one it has at other
\* versions only, and one it lacks
Versions == {2}
RequestIds == {0, 1, 2}

\* CommandMetadata::matches
matches(command, rq_id, ver) ==
    /\ command.rq_id = rq_id
    /\ command.min <= ver /\ ver <= command.max

\* the control commands of IHipcManager, by request id
HipcCommand(rq_id) ==
    CASE rq_id = 0 -> "convert_current_object_to_domain"
      [] rq_id = 1 -> "copy_from_current_domain"
      [] rq_id = 2 -> "clone_current_object"
      [] rq_id = 3 -> "query_pointer_buffer_size"
      [] rq_id = 4 -> "clone_current_object_ex"
      [] OTHER -> "none"

\* ---------------------------------------------------------------- request dispatch

\* What one process() call has done so far, threaded through the operators
\* below: the manager's state (holders, tabs, buf), the local new_sessions,
\* the handles created during the call, and the record of the observable
\* events (the object a request was resolved to, adapters run, the domain
\* object IDs and move handles pushed to out_params, requests sent upstream,
\* responses the manager wrote, replies sent to the client).
Dispatch(holders, tabs, buf) ==
    [objects |-> <<>>,
     upstream |-> <<>>,
     holders |-> holders,
     taken |-> {},
     tabs |-> tabs,
     buf |-> buf,
     new_sessions |-> <<>>,
     target |-> 0,
     lookup |-> "none",
     adapters |-> 0,
     adapter_rc |-> "",
     move_handles |-> <<>>,
     sent |-> <<>>,
     written |-> <<>>,
     replies |-> <<>>]

\* The results a command adapter (the code ipc_sf_define_interface_trait
\* generates around the user's handler, sf.rs 20-43) can have:
\*   rc       "Success", or the error it returns
\*   scratch  the handler or the adapter used the message buffer before
\*            failing (on success the response is what the buffer holds)
\*   emitted  session objects whose before_response_write completed
\*   partial  before_response_write of one more session object failed after
\*            its allocate_id / create_session
AdapterOutcomes ==
    {[rc |-> "Success", scratch |-> FALSE, emitted |-> n, partial |-> FALSE]
        : n \in 0..MaxEmit}
    \cup {[rc |-> "ShouldForwardToSession", scratch |-> TRUE, emitted |-> 0,
           partial |-> FALSE]}
    \cup {[rc |-> "HandlerFailed", scratch |-> TRUE, emitted |-> n, partial |-> FALSE]
           : n \in {0, MaxEmit}}
    \cup {[rc |-> "HandlerFailed", scratch |-> TRUE, emitted |-> 0, partial |-> TRUE]}

EmitSession_AlwaysKernelSession(st, ctx, dt) ==
    LET object == NewObject(st.holders \o st.new_sessions, st.tabs)
        server_handle == NewHandle(st.holders \o st.new_sessions, st.taken)
        client_handle == NewHandle(st.holders \o st.new_sessions,
                                   st.taken \cup {server_handle})
    IN  [st EXCEPT !.new_sessions = Append(@, new_session(server_handle, object)),
                   !.move_handles = Append(@, client_handle),
                   !.taken = @ \cup {server_handle, client_handle}]

\* before_response_write of mem::Shared<S> (server.rs 119-134), completed
EmitSession(st, ctx, dt) ==
    LET object == NewObject(st.holders \o st.new_sessions, st.tabs)
    IN  IF ctx.is_domain
        THEN LET r == allocate_id(st.tabs[dt].table)
             IN  [st EXCEPT !.tabs[dt].table = r.table,
                            !.objects = Append(@, r.ret.val),
                            !.tabs[dt].domains =
                                Append(@, new_domain_session(r.ret.val, object))]
        ELSE LET server_handle == NewHandle(st.holders \o st.new_sessions, st.taken)
                 client_handle == NewHandle(st.holders \o st.new_sessions,
                                            st.taken \cup {server_handle})
             IN  [st EXCEPT !.new_sessions =
                                Append(@, new_session(server_handle, object)),
                            !.move_handles = Append(@, client_handle),
                            !.taken = @ \cup {server_handle, client_handle}]

RECURSIVE EmitSessions(_, _, _, _)
EmitSessions(n, st, ctx, dt) ==
    IF n = 0 THEN st ELSE EmitSessions(n - 1, EmitSession(st, ctx, dt), ctx, dt)

\* before_response_write of mem::Shared<S> failing after its first step: on
\* a domain the ID stays allocated, otherwise the session pair stays created
EmitSessionFailed(st, ctx, dt) ==
    IF ctx.is_domain
    THEN [st EXCEPT !.tabs[dt].table = allocate_id(st.tabs[dt].table).table]
    ELSE st

\* call_self_server_command(command.command_fn, ...): one run of an adapter
call_self_server_command(st, ctx, dt, o) ==
    IF ctx.is_domain /\ dt = 0 /\ (o.emitted > 0 \/ o.partial)
    THEN [st EXCEPT !.adapters = @ + 1, !.adapter_rc = "DomainNotFound"]
    ELSE LET st1 == EmitSessions(o.emitted, st, ctx, dt)
             st2 == IF o.partial THEN EmitSessionFailed(st1, ctx, dt) ELSE st1
         IN  [st2 EXCEPT !.adapters = @ + 1,
                         !.adapter_rc = o.rc,
                         !.buf = IF o.rc = "Success"
                                 THEN Response("Request", "Success")
                                 ELSE IF o.scratch THEN Scratch ELSE @]

send_to_forward_handle_NoRestore(st, server_holder, command_type, backup, fwd) ==
    LET out == st.buf
    IN  IF fwd = "Ok"
        THEN [st EXCEPT !.buf = UpstreamReply(out),
                        !.sent = Append(@, [handle |-> server_holder.fwd_handle,
                                            buffer |-> out, result |-> fwd])]
        ELSE [st EXCEPT !.buf = Response(command_type, fwd),
                        !.sent = Append(@, [handle |-> server_holder.fwd_handle,
                                            buffer |-> out, result |-> fwd]),
                        !.written = Append(@, fwd)]

send_to_forward_handle_DropsError(st, server_holder, command_type, backup, fwd) ==
    LET out == backup
    IN  IF fwd = "Ok"
        THEN [st EXCEPT !.buf = UpstreamReply(out),
                        !.sent = Append(@, [handle |-> server_holder.fwd_handle,
                                            buffer |-> out, result |-> fwd])]
        ELSE [st EXCEPT !.buf = out,
                        !.sent = Append(@, [handle |-> server_holder.fwd_handle,
                                            buffer |-> out, result |-> fwd])]

\* The closure send_to_forward_handle (server.rs 477-484) and the handling
\* of its result (503-505, 515-517): the backup is copied over the whole
\* message buffer, send_sync_request goes to mitm_forward_info.handle; on
\* success the buffer holds the upstream reply, on failure an error response
\* is written.
send_to_forward_handle(st, server_holder, command_type, backup, fwd) ==
    LET out == backup
    IN  IF fwd = "Ok"
        THEN [st EXCEPT !.buf = UpstreamReply(out),
                        !.sent = Append(@, [handle |-> server_holder.fwd_handle,
                                            buffer |-> out, result |-> fwd])]
        ELSE [st EXCEPT !.buf = Response(command_type, fwd),
                        !.sent = Append(@, [handle |-> server_holder.fwd_handle,
                                            buffer |-> out, result |-> fwd]),
                        !.written = Append(@, fwd)]

\* write_request_command_response_on_msg_buffer(ctx, rc, command_type) by
\* the manager
write_error_response(st, rc, command_type) ==
    [st EXCEPT !.buf = Response(command_type, rc), !.written = Append(@, rc)]

\* server.rs 501-510: what the manager does with the result of an adapter
after_command_NeverForward(st, server_holder, command_type, backup, fwd) ==
    IF st.adapter_rc = "Success" THEN st
    ELSE write_error_response(st, st.adapter_rc, command_type)

after_command(st, server_holder, command_type, backup, fwd) ==
    IF st.adapter_rc = "Success" THEN st
    ELSE IF server_holder.is_mitm_service
            /\ st.adapter_rc = "ShouldForwardToSession"
         THEN send_to_forward_handle(st, server_holder, command_type, backup, fwd)
         ELSE write_error_response(st, st.adapter_rc, command_type)

\* server.rs 496-512: the loop over the target object's command table
RECURSIVE run_commands(_, _, _, _, _, _, _, _, _)
run_commands(commands, st, server_holder, ctx, rq_id, command_type, backup, dt, inp) ==
    IF commands = <<>> THEN st
    ELSE IF matches(Head(commands), rq_id, version)
         THEN LET ran == call_self_server_command(
                             [st EXCEPT !.lookup = "found"], ctx, dt, inp.adapter)
              IN  run_commands(Tail(commands),
                      after_command(ran, server_holder, command_type, backup,
                                    inp.forward),
                      server_holder, ctx, rq_id, command_type, backup, dt, inp)
         ELSE run_commands(Tail(commands), st, server_holder, ctx, rq_id,
                           command_type, backup, dt, inp)

command_not_found_AlwaysError(st, server_holder, command_type, backup, fwd) ==
    write_error_response([st EXCEPT !.lookup = "not_found"],
                         "InvalidCommandRequestId", command_type)

\* server.rs 513-522: no entry of the table matched
command_not_found(st, server_holder, command_type, backup, fwd) ==
    IF server_holder.is_mitm_service
    THEN send_to_forward_handle([st EXCEPT !.lookup = "not_found"],
                                server_holder, command_type, backup, fwd)
    ELSE write_error_response([st EXCEPT !.lookup = "not_found"],
                              "InvalidCommandRequestId", command_type)

target_server_OwnServer(st, server_holder, ctx, dt) ==
    IF server_holder.server = 0
    THEN [rc |-> "SignaledServerNotFound", object |-> 0]
    ELSE [rc |-> "Ok", object |-> server_holder.server]

\* server.rs 486-492: the object the request is for; 0 is None
target_server(st, server_holder, ctx, dt) ==
    IF ctx.is_domain /\ ~ctx.owns_handle
    THEN IF dt = 0 THEN [rc |-> "DomainNotFound", object |-> 0]
         ELSE LET found == find_domain(st.tabs[dt].domains, ctx.domain_object_id)
              IN  IF found.ok THEN [rc |-> "Ok", object |-> found.val]
                  ELSE [rc |-> "DomainNotFound", object |-> 0]
    ELSE IF server_holder.server = 0
         THEN [rc |-> "SignaledServerNotFound", object |-> 0]
         ELSE [rc |-> "Ok", object |-> server_holder.server]

\* server.rs 494-523: the loop over a command table, then the case that no
\* entry matched
command_loop(commands, st, server_holder, ctx, rq_id, command_type, backup, dt, inp) ==
    LET found_or_not(ran) ==
            IF ran.lookup = "found" THEN ran
            ELSE command_not_found(ran, server_holder, command_type, backup,
                                   inp.forward)
    IN  found_or_not(run_commands(commands, st, server_holder, ctx, rq_id,
                                  command_type, backup, dt, inp))

\* The closure do_handle_request (server.rs 472-530). An error of the `?`s
\* leaves the closure before new_sessions is appended.
do_handle_request(st, ctx, rq_id, command_type, backup, dt, inp) ==
    LET index == FindHolder(st.holders, ctx.handle)
    IN  IF index > Len(st.holders) THEN [rc |-> "Ok", st |-> st]
        ELSE LET server_holder == st.holders[index]
                 target == target_server(st, server_holder, ctx, dt)
                 target_rc == target.rc
                 resolved == [st EXCEPT !.target = target.object]
             IN  IF target_rc # "Ok"
                 THEN [rc |-> target_rc, st |-> st]
                 ELSE LET append_new_sessions(done) ==
                              [rc |-> "Ok",
                               st |-> [done EXCEPT
                                          !.holders = @ \o done.new_sessions,
                                          !.new_sessions = <<>>]]
                      IN  append_new_sessions(
                              command_loop(CommandTable, resolved, server_holder,
                                  ctx, rq_id, command_type, backup, dt, inp))

handle_request_command_InvalidDispatches(st, ctx, rq_id, command_type, domain_cmd, backup, dt, inp) ==
    IF domain_cmd = "Close"
    THEN [rc |-> "Ok", st |-> st]
    ELSE do_handle_request(st, ctx, rq_id, command_type, backup, dt, inp)

\* ServerManager::handle_request_command (server.rs 469-552)
handle_request_command(st, ctx, rq_id, command_type, domain_cmd, backup, dt, inp) ==
    CASE domain_cmd = "Invalid" ->
            IF ctx.is_domain
            THEN [rc |-> "InvalidDomainCommandType", st |-> st]
            ELSE do_handle_request(st, ctx, rq_id, command_type, backup, dt, inp)
      [] domain_cmd = "SendMessage" ->
            do_handle_request(st, ctx, rq_id, command_type, backup, dt, inp)
      [] domain_cmd = "Close" ->
            IF ~ctx.owns_handle
            THEN IF dt = 0 THEN [rc |-> "DomainNotFound", st |-> st]
                 ELSE LET r == deallocate_domain(st.tabs[dt].table,
                                   st.tabs[dt].domains, ctx.domain_object_id)
                      IN  [rc |-> "Ok",
                           st |-> [st EXCEPT !.tabs[dt].table = r.table,
                                             !.tabs[dt].domains = r.domains]]
            ELSE [rc |-> "Ok", st |-> st]

reply_impl_TimedOutFails(st, handle, reply) ==
    LET rc == IF reply \in {"Ok", "SessionClosed"} THEN "Ok" ELSE reply
    IN  [rc |-> rc,
         st |-> [st EXCEPT !.replies = Append(@, [handle |-> handle,
                                                  buffer |-> st.buf,
                                                  result |-> rc,
                                                  kernel |-> reply])]]

\* the closure reply_impl (server.rs 686-698): svc::reply_and_receive on the
\* handle with the handle as reply target and timeout 0, whose result is
\* `reply`; TimedOut and SessionClosed count as success
reply_impl(st, handle, reply) ==
    LET rc == IF reply \in {"Ok", "TimedOut", "SessionClosed"} THEN "Ok" ELSE reply
    IN  [rc |-> rc,
         st |-> [st EXCEPT !.replies = Append(@, [handle |-> handle,
                                                  buffer |-> st.buf,
                                                  result |-> rc,
                                                  kernel |-> reply])]]

\* ---------------------------------------------------------------- control dispatch

\* the conversion requested of the upstream session, as the table of the
\* holder stood when it was requested
UpstreamConvert(rc, id, ids) == [rc |-> rc, id |-> id, ids |-> ids]

convert_to_domain_AllocateId(st, index, upstream, upstream_id) ==
    LET self == st.holders[index]
        t == NewTable(st.holders)
    IN  IF is_domain(self.domain_object_id)
        THEN [rc |-> "AlreadyDomain", id |-> 0, st |-> st]
        ELSE LET r == allocate_id(<<>>)
             IN  [rc |-> "Ok", id |-> r.ret.val,
                  st |-> [st EXCEPT
                      !.holders[index].domain_table = t,
                      !.holders[index].fwd_domain_object_id =
                          IF self.is_mitm_service THEN upstream_id ELSE @,
                      !.holders[index].domain_object_id = r.ret.val,
                      !.upstream = IF self.is_mitm_service
                                   THEN Append(@, UpstreamConvert("Ok", upstream_id, <<>>))
                                   ELSE @,
                      !.tabs[t] = [table |-> r.table, domains |-> <<>>]]]

convert_to_domain_NoCheck(st, index, upstream, upstream_id) ==
    LET t == NewTable(st.holders)
        r == allocate_id(<<>>)
    IN  [rc |-> "Ok", id |-> r.ret.val,
         st |-> [st EXCEPT
             !.holders[index].domain_table = t,
             !.holders[index].domain_object_id = r.ret.val,
             !.tabs[t] = [table |-> r.table, domains |-> <<>>]]]

\* ServerHolder::convert_to_domain on holders[index]. upstream is the result
\* of mitm_forward_info.convert_current_object_to_domain(): "Ok" with the ID
\* upstream_id, or an error.
convert_to_domain(st, index, upstream, upstream_id) ==
    LET self == st.holders[index]
        t == NewTable(st.holders)
    IN  IF is_domain(self.domain_object_id)
        THEN [rc |-> "AlreadyDomain", id |-> 0, st |-> st]
        ELSE IF self.is_mitm_service
             THEN IF upstream # "Ok"
                  THEN [rc |-> upstream, id |-> 0,
                        st |-> [st EXCEPT
                            !.holders[index].domain_table = t,
                            !.upstream = Append(@, UpstreamConvert(upstream, 0, <<>>)),
                            !.tabs[t] = EmptyTable]]
                  ELSE LET r == allocate_specific_id(<<>>, upstream_id)
                       IN  [rc |-> "Ok", id |-> r.ret.val,
                            st |-> [st EXCEPT
                                !.holders[index].domain_table = t,
                                !.holders[index].fwd_domain_object_id = upstream_id,
                                !.holders[index].domain_object_id = r.ret.val,
                                !.upstream = Append(@, UpstreamConvert("Ok", upstream_id, <<>>)),
                                !.tabs[t] = [table |-> r.table, domains |-> <<>>]]]
             ELSE LET r == allocate_id(<<>>)
                  IN  [rc |-> "Ok", id |-> r.ret.val,
                       st |-> [st EXCEPT
                           !.holders[index].domain_table = t,
                           !.holders[index].domain_object_id = r.ret.val,
                           !.tabs[t] = [table |-> r.table, domains |-> <<>>]]]

NoClone == [forward_handle |-> INVALID_HANDLE, server_handle |-> INVALID_HANDLE]

clone_current_object_NoUpstream(st, index, create, upstream) ==
    LET server_handle == NewHandle(st.holders, st.taken)
        client_handle == NewHandle(st.holders, st.taken \cup {server_handle})
    IN  IF create # "Ok"
        THEN [rc |-> create, out |-> 0, st |-> st, cloned |-> NoClone]
        ELSE [rc |-> "Ok",
              out |-> client_handle,
              st |-> [st EXCEPT !.taken = @ \cup {server_handle, client_handle}],
              cloned |-> [forward_handle |-> INVALID_HANDLE,
                          server_handle |-> server_handle]]

\* HipcManager::clone_current_object (server.rs 370-382): create is the
\* result of svc::create_session, upstream that of
\* mitm_forward_info.clone_current_object()
clone_current_object(st, index, create, upstream) ==
    LET self == st.holders[index]
        server_handle == NewHandle(st.holders, st.taken)
        client_handle == NewHandle(st.holders, st.taken \cup {server_handle})
        made == {server_handle, client_handle}
        fwd == NewHandle(st.holders, st.taken \cup made)
    IN  IF create # "Ok"
        THEN [rc |-> create, out |-> 0, st |-> st, cloned |-> NoClone]
        ELSE IF self.is_mitm_service
             THEN IF upstream # "Ok"
                  THEN [rc |-> upstream,
                        out |-> 0,
                        st |-> [st EXCEPT !.taken = @ \cup made],
                        cloned |-> NoClone]
                  ELSE [rc |-> "Ok",
                        out |-> client_handle,
                        st |-> [st EXCEPT !.taken = @ \cup made \cup {fwd}],
                        cloned |-> [forward_handle |-> fwd,
                                    server_handle |-> server_handle]]
             ELSE [rc |-> "Ok",
                   out |-> client_handle,
                   st |-> [st EXCEPT !.taken = @ \cup made],
                   cloned |-> [forward_handle |-> INVALID_HANDLE,
                               server_handle |-> server_handle]]

\* HipcManager::query_pointer_buffer_size: P as u16
query_pointer_buffer_size(p) == p % 65536

\* One control command of the HipcManager over holders[index] (server.rs
\* 360-392), run by its adapter (sf.rs 75-93), which writes the response on
\* success.
call_hipc_command(st, index, rq_id, inp) ==
    LET name == HipcCommand(rq_id)
        converted(c) == [rc |-> c.rc, out |-> c.id, st |-> c.st, cloned |-> NoClone]
        adapter(r) ==
            [rc |-> IF r.rc = "Ok" THEN "Success" ELSE r.rc,
             st |-> [r.st EXCEPT
                        !.adapters = @ + 1,
                        !.adapter_rc = IF r.rc = "Ok" THEN "Success" ELSE r.rc,
                        !.lookup = "found",
                        !.buf = IF r.rc = "Ok"
                                THEN ResponseWith("Control", "Success", r.out)
                                ELSE @],
             cloned |-> r.cloned]
    IN  adapter(CASE name = "convert_current_object_to_domain" ->
                    converted(convert_to_domain(st, index, inp.upstream,
                                                inp.upstream_id))
               [] name \in {"clone_current_object", "clone_current_object_ex"} ->
                    clone_current_object(st, index, inp.create, inp.upstream)
               [] name = "query_pointer_buffer_size" ->
                    [rc |-> "Ok",
                     out |-> query_pointer_buffer_size(P),
                     st |-> st,
                     cloned |-> NoClone]
               [] OTHER ->
                    [rc |-> "NotImplemented",
                     out |-> 0,
                     st |-> st,
                     cloned |-> NoClone])

\* ServerManager::handle_control_command (server.rs 555-590); every session
\* of the model speaks CMIF
handle_control_command(st, ctx, rq_id, command_type, inp) ==
    LET index == FindHolder(st.holders, ctx.handle)
    IN  IF index > Len(st.holders) THEN [rc |-> "Ok", st |-> st]
        ELSE IF HipcCommand(rq_id) = "none"
             THEN [rc |-> "Ok",
                   st |-> write_error_response([st EXCEPT !.lookup = "not_found"],
                              "InvalidCommandRequestId", command_type)]
             ELSE LET answered(ran) ==
                          IF ran.rc = "Success" THEN ran.st
                          ELSE write_error_response(ran.st, ran.rc, command_type)
                      push_cloned(ran, done) ==
                          [rc |-> "Ok",
                           st |-> IF ran.cloned.server_handle # 0
                                  THEN [done EXCEPT !.holders =
                                           Append(@, clone_self(ran.st.holders[index],
                                                      ran.cloned.server_handle,
                                                      ran.cloned.forward_handle))]
                                  ELSE done]
                      respond(ran) == push_cloned(ran, answered(ran))
                  IN  respond(call_hipc_command(st, index, rq_id, inp))

\* ---------------------------------------------------------------- the manager

\* The const parameter P of ServerManager<const P: usize>: no pointer buffer,
\* a small one, and one too large for 16 bits
PointerBufferSizes == {0, 16, 65536 + 16}

NoStep ==
    [objects |-> <<>>,
     upstream |-> <<>>,
     handle |-> 0,
     closed |-> FALSE,
     kind |-> "none",
     command |-> "none",
     target |-> 0,
     lookup |-> "none",
     adapters |-> 0,
     adapter_rc |-> "",
     move_handles |-> <<>>,
     sent |-> <<>>,
     written |-> <<>>,
     replies |-> <<>>,
     result |-> "Ok",
     delivered |-> EmptyBuffer,
     pre_holders |-> <<>>,
     destroyed |-> <<>>,
     pre_tables |-> <<>>]

\* the record of one process() call: how it went (kind), the signaled
\* handle, the Result of process(), the message received and the kind of
\* command dispatched, whether the session was marked for closing, the
\* holders and the domain tables before the call, the events of the dispatch,
\* and the holders destroyed
Step(kind, handle, result, command, delivered, closed, st) ==
    [objects |-> st.objects,
     upstream |-> st.upstream,
     handle |-> handle,
     closed |-> closed,
     kind |-> kind,
     command |-> command,
     target |-> st.target,
     lookup |-> st.lookup,
     adapters |-> st.adapters,
     adapter_rc |-> st.adapter_rc,
     move_handles |-> st.move_handles,
     sent |-> st.sent,
     written |-> st.written,
     replies |-> st.replies,
     result |-> result,
     delivered |-> delivered,
     pre_holders |-> server_holders,
     destroyed |-> <<>>,
     pre_tables |-> dtables]

\* ServerManager::new
ManagerInit ==
    /\ server_holders = <<>>
    /\ dtables = [t \in TableIds |-> EmptyTable]
    /\ msg_buffer = EmptyBuffer
    /\ version \in Versions
    /\ P \in PointerBufferSizes
    /\ loop_state = "setup"
    /\ loop_result = "none"
    /\ calls = 0
    /\ step = NoStep

\* ServerManager::register_server / register_mitm_server / register_session:
\* one push each
Register(holder) ==
    /\ loop_state = "setup"
    /\ Len(server_holders) < MaxRegistered
    /\ server_holders' = Append(server_holders, holder)
    /\ step' = [NoStep EXCEPT !.kind = "register", !.handle = holder.handle,
                              !.pre_holders = server_holders]
    /\ UNCHANGED <<dtables, msg_buffer, version, P, loop_state, loop_result, calls,
                   outside_manager>>

\* a service name is registered once
Registered(service_name) ==
    \E i \in 1..Len(server_holders) : server_holders[i].service_name = service_name

\* register_server::<S>(handle, name), as register_service_server calls it
RegisterServer ==
    /\ ~Registered("srv")
    /\ Register(new_server(NewHandle(server_holders, {}), "srv"))

\* register_mitm_server::<S>(handle, name)
RegisterMitmServer ==
    /\ ~Registered("mitm")
    /\ Register(new_mitm_server(NewHandle(server_holders, {}), "mitm"))

\* register_session(handle, session_obj)
RegisterSession ==
    Register(new_session(NewHandle(server_holders, {}),
                         NewObject(server_holders, dtables)))

loop_process_step_AlwaysOk(rc) ==
    IF rc = "Ok" THEN [result |-> "none", state |-> "looping"]
    ELSE [result |-> "Ok", state |-> "returned"]

\* One turn of the loop of ServerManager::loop_process (server.rs 786-801)
\* on the Result of process(): go on, break and return Ok, or return Err(rc)
loop_process_step(rc) ==
    IF rc = "Ok" THEN [result |-> "none", state |-> "looping"]
    ELSE IF rc = "Cancelled" THEN [result |-> "Ok", state |-> "returned"]
    ELSE [result |-> rc, state |-> "returned"]

\* the call of loop_process
StartLoop ==
    /\ loop_state = "setup"
    /\ loop_state' = "looping"
    /\ step' = NoStep
    /\ UNCHANGED <<server_holders, dtables, msg_buffer, version, P, loop_result, calls,
                   outside_manager>>

\* the holders a call took out of the list (server_holders.remove(index),
\* server.rs 719-721); each is dropped as the statement ends
Removed(before, after) ==
    SelectSeq(before, LAMBDA h : \A i \in 1..Len(after) : after[i].handle # h.handle)

\* The end of a process() call inside loop_process: the manager's state as
\* the call leaves it, its record, and the turn of the loop.  The holders
\* removed are sessions, whose close() does not call the service manager.
Finish(holders, tabs, buf, st) ==
    /\ Len(holders) <= MaxHolders
    /\ \A t \in TableIds : Len(tabs[t].table) <= MaxObjects
    /\ calls' = calls + 1
    /\ server_holders' = holders
    /\ dtables' = DropUnusedTables(holders, tabs)
    /\ msg_buffer' = buf
    /\ step' = [st EXCEPT !.destroyed = drop_all(Removed(server_holders, holders), "Ok")]
    /\ loop_state' = loop_process_step(st.result).state
    /\ loop_result' = loop_process_step(st.result).result
    /\ UNCHANGED <<version, P, outside_manager>>

\* The end of a process() call whose dispatch ended as `final`
Finished(final, kind, handle, command, delivered, closed) ==
    Finish(final.st.holders, final.st.tabs, final.st.buf,
           Step(kind, handle, final.rc, command, delivered, closed, final.st))

\* The owner of the manager drops it after loop_process has returned: the
\* holders of server_holders are dropped in order, each consulting the
\* service manager if it is named.  A drop that panics ends the program with
\* the holders after it still in the list.
DropManager ==
    \E sm \in SmResults :
        LET torn(drops) ==
                /\ loop_state' = IF drops[Len(drops)].panic
                                 THEN "panicked_in_drop" ELSE "torn_down"
                /\ server_holders' = SubSeq(server_holders, Len(drops) + 1,
                                            Len(server_holders))
                /\ dtables' = DropUnusedTables(server_holders', dtables)
                /\ step' = [NoStep EXCEPT !.kind = "teardown",
                                          !.pre_holders = server_holders,
                                          !.destroyed = drops]
        IN  /\ loop_state = "returned"
            /\ server_holders # <<>>
            /\ torn(drop_all(server_holders, sm))
            /\ UNCHANGED <<msg_buffer, version, P, loop_result, calls, outside_manager>>

\* process(): prepare_wait_handles writes past wait_handles and panics
ProcessPanic ==
    /\ loop_state = "looping"
    /\ prepare_wait_handles(server_holders).panic
    /\ loop_state' = "panicked"
    /\ step' = [NoStep EXCEPT !.kind = "panic", !.pre_holders = server_holders]
    /\ UNCHANGED <<server_holders, dtables, msg_buffer, version, P, loop_result, calls,
                   outside_manager>>

\* loop_process is about to call process() once more
InLoop == loop_state = "looping" /\ calls < MaxCalls

\* process(): wait::wait_handles fails, `?` returns the error
ProcessWaitError ==
    \E rc \in {"Cancelled", "KernelError"} :
        /\ InLoop
        /\ ~prepare_wait_handles(server_holders).panic
        /\ Finish(server_holders, dtables, msg_buffer,
                  Step("wait_error", 0, rc, "none", EmptyBuffer, FALSE,
                       Dispatch(server_holders, dtables, msg_buffer)))

\* the handles process() can find signaled, with the holder found for each
Signaled ==
    IF InLoop /\ ~prepare_wait_handles(server_holders).panic
    THEN Range(prepare_wait_handles(server_holders).handles)
    ELSE {}

\* process() on a signaled port (server.rs 667-679): accept is the result
\* of svc::accept_session, sm that of the service-manager calls of the MITM
\* branch, which use the message buffer
after_accept_Replies(st, handle) == reply_impl(st, handle, "Ok").st

\* server.rs 700-717 after a port was handled: command_type is still
\* Invalid, the `_ => {}` arm is taken, nothing is dispatched or replied
after_accept(st, handle) == st

ProcessAccept ==
    \E handle \in Signaled, accept \in {"Ok", "KernelError"},
       sm \in {"Ok", "SmError"} :
        LET index == FindHolder(server_holders, handle)
            server_holder == server_holders[index]
            st == Dispatch(server_holders, dtables, msg_buffer)
            new_handle == NewHandle(server_holders, {})
            forward_handle == NewHandle(server_holders, {new_handle})
            object == NewObject(server_holders, dtables)
            made == IF server_holder.is_mitm_service
                    THEN make_new_mitm_session(server_holder, new_handle,
                                               forward_handle, object)
                    ELSE make_new_session(server_holder, new_handle, object)
            rc == IF accept # "Ok" THEN accept
                  ELSE IF server_holder.is_mitm_service /\ sm # "Ok" THEN sm
                  ELSE made.rc
            buf == IF accept = "Ok" /\ server_holder.is_mitm_service
                   THEN Scratch ELSE msg_buffer
        IN  /\ server_holder.handle_type = "Server"
            /\ ~server_holder.is_mitm_service => sm = "Ok"
            /\ Finish(IF rc = "Ok" THEN Append(server_holders, made.holder)
                                   ELSE server_holders,
                      dtables, buf,
                      Step("port", handle, rc, "none", EmptyBuffer, FALSE,
                           after_accept(st, handle)))

\* the buffer when reply_and_receive is called to receive: with P > 0 the
\* receive-static command has been written to it (server.rs 611-616)
before_receive(buf) == IF P > 0 THEN StaticCommand ELSE buf

\* process() on a signaled session whose receive fails (server.rs 618-627):
\* SessionClosed marks the holder for removal, any other error is returned
ProcessReceiveError ==
    \E handle \in Signaled, recv \in {"SessionClosed", "Cancelled", "KernelError"} :
        LET index == FindHolder(server_holders, handle)
            st == Dispatch(server_holders, dtables, msg_buffer)
            should_close_session == (recv = "SessionClosed")
        IN  /\ server_holders[index].handle_type = "Session"
            /\ Finish(IF should_close_session
                      THEN Remove(server_holders, index) ELSE server_holders,
                      dtables, before_receive(msg_buffer),
                      Step("session", handle,
                           IF should_close_session THEN "Ok" ELSE recv,
                           "none", EmptyBuffer, should_close_session, st))

\* a request: to a domain session a SendMessage with a request id for an
\* object, a Close of an object, or a header of neither type; otherwise a
\* request id; or a message whose data header does not parse
RequestMessages(to_domain) ==
    (IF to_domain
     THEN {Msg("message", "Request", rq_id, "SendMessage", object_id, TRUE, "", 0) :
              rq_id \in RequestIds, object_id \in 0..MaxObjects}
          \cup {Msg("message", "Request", 0, "Close", object_id, TRUE, "", 0) :
                   object_id \in 0..MaxObjects}
          \cup {Msg("message", "Request", 0, "Invalid", object_id, TRUE, "", 0) :
                   object_id \in 0..MaxObjects}
     ELSE {Msg("message", "Request", rq_id, "Invalid", 0, TRUE, "", 0) :
              rq_id \in RequestIds})
    \cup {Msg("message", "Request", 0, "Invalid", 0, FALSE, "", 0)}

\* a control command: the five of IHipcManager and one it lacks, or a
\* message whose data header does not parse
ControlIds == {0, 1, 2, 3, 4, 5}

ControlMessages ==
    {Msg("message", "Control", rq_id, "Invalid", 0, TRUE, "", 0) : rq_id \in ControlIds}
    \cup {Msg("message", "Control", 0, "Invalid", 0, FALSE, "", 0)}

\* ipc_buf_backup: the copy of the whole message buffer taken after the
\* receive (server.rs 602, 631)
backup_of(buf) == buf

\* server.rs 639-645: the object info of the request's context
request_context(server_holder, object_id) ==
    IF is_domain(server_holder.domain_object_id)
    THEN [domain_object_id |-> object_id,
          is_domain |-> is_domain(object_id),
          handle |-> server_holder.handle,
          owns_handle |-> (server_holder.domain_object_id = object_id)]
    ELSE [domain_object_id |-> 0,
          is_domain |-> FALSE,
          handle |-> server_holder.handle,
          owns_handle |-> TRUE]

ReplyResults == {"Ok", "TimedOut", "SessionClosed", "KernelError"}

\* the inputs a dispatch consumes: an adapter outcome when an entry of the
\* command table matches, a result of send_sync_request on a MITM session
NoAdapter == [rc |-> "Success", scratch |-> FALSE, emitted |-> 0, partial |-> FALSE]

\* handle_request_command calls do_handle_request (server.rs 533-540)
Dispatches(ctx, parsed) ==
    /\ parsed.rc = "Ok"
    /\ \/ parsed.domain_cmd = "SendMessage"
       \/ parsed.domain_cmd = "Invalid" /\ ~ctx.is_domain

AdapterInputs(ctx, parsed) ==
    IF /\ Dispatches(ctx, parsed)
       /\ \E i \in 1..Len(CommandTable) :
              matches(CommandTable[i], parsed.rq_id, version)
    THEN AdapterOutcomes ELSE {NoAdapter}

ForwardInputs(server_holder, ctx, parsed) ==
    IF server_holder.is_mitm_service /\ Dispatches(ctx, parsed)
    THEN {"Ok", "KernelError"} ELSE {"Ok"}

\* server.rs 701-704: reply_impl()? when a command was handled
replied_or_failed(handled, handle, reply) ==
    IF handled.rc # "Ok" THEN handled ELSE reply_impl(handled.st, handle, reply)

ReplyInputs(handled) == IF handled.rc # "Ok" THEN {"Ok"} ELSE ReplyResults

\* process() on a signaled session that receives a Request (server.rs
\* 631-651, 701-704): snapshot, parse, handle_request_command, reply
ProcessRequest ==
    \E handle \in Signaled :
      LET index == FindHolder(server_holders, handle)
          server_holder == server_holders[index]
      IN
      \E msg \in RequestMessages(is_domain(server_holder.domain_object_id)) :
        LET ipc_buf_backup == backup_of(msg)
            st == Dispatch(server_holders, dtables, msg)
            command_type == read_command_from_msg_buffer(msg)
            parsed == read_request_command_from_msg_buffer(
                          is_domain(server_holder.domain_object_id), msg)
            ctx == request_context(server_holder, parsed.object_id)
        IN
        /\ server_holder.handle_type = "Session"
        /\ \E adapter \in AdapterInputs(ctx, parsed),
              forward \in ForwardInputs(server_holder, ctx, parsed) :
            LET handled ==
                    IF parsed.rc # "Ok" THEN [rc |-> parsed.rc, st |-> st]
                    ELSE handle_request_command(st, ctx, parsed.rq_id,
                             command_type, parsed.domain_cmd, ipc_buf_backup,
                             server_holder.domain_table,
                             [adapter |-> adapter, forward |-> forward])
            IN  \E reply \in ReplyInputs(handled) :
                    Finished(replied_or_failed(handled, handle, reply),
                             "session", handle,
                             IF parsed.rc = "Ok" THEN "request" ELSE "none",
                             msg, FALSE)

\* CommandContext::new_server(server_info, ..): the context of a control
\* command keeps the holder's object info
control_context(server_holder) ==
    [domain_object_id |-> server_holder.domain_object_id,
     is_domain |-> is_domain(server_holder.domain_object_id),
     handle |-> server_holder.handle,
     owns_handle |-> TRUE]

CloneCommands == {"clone_current_object", "clone_current_object_ex"}

\* the inputs a control command consumes: the results of the upstream's
\* convert / clone on a MITM session, the result of svc::create_session
UpstreamInputs(server_holder, name) ==
    IF server_holder.is_mitm_service
       /\ name \in CloneCommands \cup {"convert_current_object_to_domain"}
    THEN {"Ok", "UpstreamError"} ELSE {"Ok"}

UpstreamIdInputs(server_holder, name) ==
    IF server_holder.is_mitm_service /\ name = "convert_current_object_to_domain"
    THEN 1..MaxObjects ELSE {1}

CreateInputs(name) ==
    IF name \in CloneCommands THEN {"Ok", "KernelError"} ELSE {"Ok"}

\* process() on a signaled session that receives a Control command
\* (server.rs 653-660, 705-708)
ProcessControl ==
    \E handle \in Signaled, msg \in ControlMessages :
      LET index == FindHolder(server_holders, handle)
          server_holder == server_holders[index]
          st == Dispatch(server_holders, dtables, msg)
          command_type == read_command_from_msg_buffer(msg)
          parsed == read_control_command_from_msg_buffer(msg)
          name == HipcCommand(parsed.rq_id)
          ctx == control_context(server_holder)
      IN
      /\ server_holder.handle_type = "Session"
      /\ \E upstream \in UpstreamInputs(server_holder, name),
            upstream_id \in UpstreamIdInputs(server_holder, name),
            create \in CreateInputs(name) :
          LET handled ==
                  IF parsed.rc # "Ok" THEN [rc |-> parsed.rc, st |-> st]
                  ELSE handle_control_command(st, ctx, parsed.rq_id, command_type,
                           [upstream |-> upstream, upstream_id |-> upstream_id,
                            create |-> create])
          IN  \E reply \in ReplyInputs(handled) :
                  Finished(replied_or_failed(handled, handle, reply),
                           "session", handle,
                           IF parsed.rc = "Ok" THEN "control" ELSE "none",
                           msg, FALSE)

CloseMessage == Msg("message", "Close", 0, "Invalid", 0, TRUE, "", 0)

\* process() on a signaled session that receives a Close command (server.rs
\* 661-663, 709-712, 719-721): the close response is written and replied;
\* `reply_impl()?` returns before the holder is removed
ProcessClose ==
    \E handle \in Signaled, reply \in ReplyResults :
      LET index == FindHolder(server_holders, handle)
          st == [Dispatch(server_holders, dtables, CloseMessage)
                    EXCEPT !.buf = Response("Close", "Success")]
          remove_closed(final) ==
              IF final.rc = "Ok"
              THEN [final EXCEPT !.st.holders = Remove(server_holders, index)]
              ELSE final
      IN  /\ server_holders[index].handle_type = "Session"
          /\ Finished(remove_closed(reply_impl(st, handle, reply)),
                      "session", handle, "close", CloseMessage, TRUE)

OtherMessage == Msg("message", "Invalid", 0, "Invalid", 0, TRUE, "", 0)

\* process() on a signaled session that receives a command of any other
\* type (server.rs 664): Err(InvalidCommandType)
ProcessInvalidCommand ==
    \E handle \in Signaled :
      LET index == FindHolder(server_holders, handle)
          st == Dispatch(server_holders, dtables, OtherMessage)
      IN  /\ server_holders[index].handle_type = "Session"
          /\ Finish(server_holders, dtables, OtherMessage,
                    Step("session", handle, "InvalidCommandType", "none",
                         OtherMessage, FALSE, st))

\* ================================================================
\* Command tables (macros/ipc/sf.rs 46-52) under the command loop
\* ================================================================

\* the version intervals of the entries: before, up to, at, from and after
\* the version running
Intervals == {<<1, 1>>, <<1, 2>>, <<2, 2>>, <<2, 3>>, <<3, 3>>}

\* CommandMetadata::new(rq_id, adapter, ver_intv): one entry per command of
\* the interface, in the order they are declared
CommandMetadata(rq_id, ver_intv) ==
    [rq_id |-> rq_id, min |-> ver_intv[1], max |-> ver_intv[2]]

\* get_sf_command_metadata_table of an interface with up to n commands, whose
\* request ids are 0 and 1
RECURSIVE CommandTables(_)
CommandTables(n) ==
    IF n = 0 THEN {<<>>}
    ELSE CommandTables(n - 1)
            \cup {Append(commands, CommandMetadata(rq_id, ver_intv)) :
                      commands \in CommandTables(n - 1),
                      rq_id \in {0, 1}, ver_intv \in Intervals}

\* a request id about to be looked up in the table of its target object
Lookup(commands, rq_id) ==
    [done |-> FALSE,
     rq_id |-> rq_id,
     lookup |-> "none",
     adapters |-> 0,
     sent |-> <<>>,
     written |-> <<>>,
     commands |-> commands]

LookupIdle == lookup_ret = Lookup(<<>>, 0)

LookupInit ==
    \E commands \in CommandTables(MaxEntries), rq_id \in {0, 1} :
        lookup_ret = Lookup(commands, rq_id)

\* what the command loop leaves of a lookup
LookedUp(call, st) ==
    [call EXCEPT !.done = TRUE, !.lookup = st.lookup, !.adapters = st.adapters,
                 !.written = st.written, !.sent = st.sent]

\* the command loop of do_handle_request for a request on a session
\* `server_holder` registered with the manager
CommandLoop(server_holder) ==
    \E adapter \in AdapterOutcomes, forward \in {"Ok", "KernelError"} :
        LET request == Msg("message", "Request", lookup_ret.rq_id, "Invalid", 0,
                           TRUE, "", 0)
            st == Dispatch(<<server_holder>>, dtables, request)
            ctx == request_context(server_holder, 0)
        IN  /\ ~lookup_ret.done
            /\ lookup_ret' =
                  LookedUp(lookup_ret,
                           command_loop(lookup_ret.commands, st, server_holder, ctx,
                                        lookup_ret.rq_id, "Request",
                                        backup_of(request), 0,
                                        [adapter |-> adapter, forward |-> forward]))
            /\ UNCHANGED outside_table

\* a request on a session of a service
LookupOnSession == CommandLoop(new_session(1, 1))

\* a request on a session of a MITM service, whose forward handle is 2
LookupOnMitmSession ==
    CommandLoop(make_new_mitm_session(new_mitm_server(3, "mitm"), 1, 2, 1).holder)

TableNext ==
    \/ LookupOnSession
    \/ LookupOnMitmSession

\* ================================================================
\* Binder (gpu/binder.rs)
\* ================================================================

\* enum ErrorCode, #[repr(i32)] (binder.rs 11-32): the variants and their
\* discriminants
ErrorCode ==
    << [value |-> 0, name |-> "Success"],
       [value |-> -1, name |-> "PermissionDenied"],
       [value |-> -2, name |-> "NameNotFound"],
       [value |-> -11, name |-> "WouldBlock"],
       [value |-> -12, name |-> "NoMemory"],
       [value |-> -17, name |-> "AlreadyExists"],
       [value |-> -19, name |-> "NoInit"],
       [value |-> -22, name |-> "BadValue"],
       [value |-> -32, name |-> "DeadObject"],
       [value |-> -38, name |-> "InvalidOperation"],
       [value |-> -61, name |-> "NotEnoughData"],
       [value |-> -74, name |-> "UnknownTransaction"],
       [value |-> -75, name |-> "BadIndex"],
       [value |-> -110, name |-> "TimeOut"],
       [value |-> -2147483641, name |-> "FdsNotAllowed"],
       [value |-> -2147483646, name |-> "FailedTransaction"],
       [value |-> -2147483647, name |-> "BadType"] >>

ErrorCodeNames == {ErrorCode[i].name : i \in 1..Len(ErrorCode)}
ErrorCodeValues == {ErrorCode[i].value : i \in 1..Len(ErrorCode)}

\* the variant whose discriminant is the value
ErrorCodeOf(value) ==
    ErrorCode[CHOOSE i \in 1..Len(ErrorCode) : ErrorCode[i].value = value].name

\* convert_nv_error_code (binder.rs 34-56) on a variant of ErrorCode: "Ok"
\* for Ok(()), else the name of the error
convert_nv_error_code(err) ==
    CASE err = "Success" -> "Ok"
      [] err = "PermissionDenied" -> "ResultErrorCodePermissionDenied"
      [] err = "NameNotFound" -> "ResultErrorCodeNameNotFound"
      [] err = "WouldBlock" -> "ResultErrorCodeWouldBlock"
      [] err = "NoMemory" -> "ResultErrorCodeNoMemory"
      [] err = "AlreadyExists" -> "ResultErrorCodeAlreadyExists"
      [] err = "NoInit" -> "ResultErrorCodeNoInit"
      [] err = "BadValue" -> "ResultErrorCodeBadValue"
      [] err = "DeadObject" -> "ResultErrorCodeDeadObject"
      [] err = "InvalidOperation" -> "ResultErrorCodeInvalidOperation"
      [] err = "NotEnoughData" -> "ResultErrorCodeNotEnoughData"
      [] err = "UnknownTransaction" -> "ResultErrorCodeUnknownTransaction"
      [] err = "BadIndex" -> "ResultErrorCodeBadIndex"
      [] err = "TimeOut" -> "ResultErrorCodeTimeOut"
      [] err = "FdsNotAllowed" -> "ResultErrorCodeFdsNotAllowed"
      [] err = "FailedTransaction" -> "ResultErrorCodeFailedTransaction"
      [] err = "BadType" -> "ResultErrorCodeBadType"
      [] OTHER -> "ResultErrorCodeInvalid"

\* The results the match of convert_nv_error_code can give.  An i32 that is
\* no discriminant of ErrorCode is not a value of the enum: the match covers
\* every variant, its `_` arm is unreachable for the compiler, and what a
\* build does with such a value is any of the arms.
NvOutcomes ==
    {convert_nv_error_code(name) : name \in ErrorCodeNames}
        \cup {convert_nv_error_code("")}

\* what the status mapper gives for a 32-bit status held in an ErrorCode
StatusMapper(status) ==
    IF status \in ErrorCodeValues
    THEN {convert_nv_error_code(ErrorCodeOf(status))}
    ELSE NvOutcomes

\* the statuses fed to the mapper: every discriminant, and two values that
\* are none
StatusValues == ErrorCodeValues \cup {-1000, 1}

\* ---------------------------------------------------------------- parcels

\* A reply parcel after load_from: the items the service wrote, each read by
\* one read / read_sized, and the read cursor.
Parcel(items) == [items |-> items, cursor |-> 1]

\* Parcel::read / read_sized: the next item, or NotEnoughData past the end
read(parcel) ==
    IF parcel.cursor <= Len(parcel.items)
    THEN [val |-> parcel.items[parcel.cursor],
          rc |-> "Ok",
          parcel |-> [parcel EXCEPT !.cursor = @ + 1]]
    ELSE [val |-> 0, rc |-> "NotEnoughData", parcel |-> parcel]

read_sized(parcel) == read(parcel)

\* Parcel::read::<ErrorCode>: BadType when the value is no variant
read_error_code(parcel) ==
    LET item == read(parcel)
    IN  IF item.rc = "Ok" /\ item.val \notin ErrorCodeValues
        THEN [val |-> 0, rc |-> "BadType", parcel |-> parcel]
        ELSE item

\* what a method of Binder returns: the Result, the outputs, and the place
\* in the reply at which it read the status (0: it did not)
Returned(rc, out, status_at) == [rc |-> rc, out |-> out, status_at |-> status_at]

\* Binder::transact_parcel_check_err (binder.rs 72-76), then Ok(out)
transact_parcel_check_err(parcel, out) ==
    LET err == read_error_code(parcel)
    IN  IF err.rc = "NotEnoughData" THEN Returned(err.rc, <<>>, 0)
        ELSE IF err.rc # "Ok" THEN Returned(err.rc, <<>>, parcel.cursor)
        ELSE IF convert_nv_error_code(ErrorCodeOf(err.val)) # "Ok"
             THEN Returned(convert_nv_error_code(ErrorCodeOf(err.val)), <<>>,
                           parcel.cursor)
             ELSE Returned("Ok", out, parcel.cursor)

\* Binder::connect (binder.rs 119-123) on the reply parcel
connect(response_parcel) ==
    LET qbo == read(response_parcel)
    IN  IF qbo.rc # "Ok" THEN Returned(qbo.rc, <<>>, 0)
        ELSE transact_parcel_check_err(qbo.parcel, << qbo.val >>)

\* Binder::disconnect (binder.rs 133-136)
disconnect(response_parcel) ==
    transact_parcel_check_err(response_parcel, <<>>)

\* Binder::set_preallocated_buffer (binder.rs 150-151): the reply is not read
set_preallocated_buffer(response_parcel) == Returned("Ok", <<>>, 0)

request_buffer_AlwaysReadSized(response_parcel) ==
    LET non_null_v == read(response_parcel)
        gfx_buf == read_sized(non_null_v.parcel)
    IN  IF non_null_v.rc # "Ok" THEN Returned(non_null_v.rc, <<>>, 0)
        ELSE IF gfx_buf.rc # "Ok" THEN Returned(gfx_buf.rc, <<>>, 0)
        ELSE transact_parcel_check_err(gfx_buf.parcel,
                                       << non_null_v.val # 0, gfx_buf.val >>)

\* Binder::request_buffer (binder.rs 160-169)
request_buffer(response_parcel) ==
    LET non_null_v == read(response_parcel)
        gfx_buf == read_sized(non_null_v.parcel)
    IN  IF non_null_v.rc # "Ok" THEN Returned(non_null_v.rc, <<>>, 0)
        ELSE IF non_null_v.val # 0
             THEN IF gfx_buf.rc # "Ok" THEN Returned(gfx_buf.rc, <<>>, 0)
                  ELSE transact_parcel_check_err(gfx_buf.parcel,
                                                 << TRUE, gfx_buf.val >>)
             ELSE transact_parcel_check_err(non_null_v.parcel, << FALSE, 0 >>)

\* Binder::dequeue_buffer (binder.rs 182-193)
dequeue_buffer(response_parcel) ==
    LET slot == read(response_parcel)
        has_fences_v == read(slot.parcel)
        fences == read_sized(has_fences_v.parcel)
    IN  IF slot.rc # "Ok" THEN Returned(slot.rc, <<>>, 0)
        ELSE IF has_fences_v.rc # "Ok" THEN Returned(has_fences_v.rc, <<>>, 0)
        ELSE IF has_fences_v.val # 0
             THEN IF fences.rc # "Ok" THEN Returned(fences.rc, <<>>, 0)
                  ELSE transact_parcel_check_err(fences.parcel,
                                                 << slot.val, TRUE, fences.val >>)
             ELSE transact_parcel_check_err(has_fences_v.parcel,
                                            << slot.val, FALSE, 0 >>)

\* Binder::queue_buffer (binder.rs 203-208)
queue_buffer(response_parcel) ==
    LET qbo == read(response_parcel)
    IN  IF qbo.rc # "Ok" THEN Returned(qbo.rc, <<>>, 0)
        ELSE transact_parcel_check_err(qbo.parcel, << qbo.val >>)

\* ---------------------------------------------------------------- the driver

\* Results of a call of IHOSBinderDriver, and of writing the request parcel
DriverResults == {"Ok", "DriverError"}
RequestResults == {"Ok", "ParcelError"}

\* a call of IHOSBinderDriver::adjust_refcount and its Result
AdjustRefcount(add_value, type, rc) ==
    [rc |-> rc, op |-> "adjust_refcount", type |-> type, add_value |-> add_value]

\* a call of IHOSBinderDriver::transact_parcel
TransactParcel(transaction_id, rc) ==
    [rc |-> rc, op |-> "transact_parcel", type |-> transaction_id, add_value |-> 0]

increase_refcounts_StrongFirst(weak, strong) ==
    IF strong # "Ok"
    THEN [calls |-> << AdjustRefcount(1, "Strong", strong) >>, rc |-> strong]
    ELSE [calls |-> << AdjustRefcount(1, "Strong", strong),
                      AdjustRefcount(1, "Weak", weak) >>,
          rc |-> weak]

\* Binder::increase_refcounts (binder.rs 100-103): weak and strong are the
\* Results of the driver for the two adjustments
increase_refcounts(weak, strong) ==
    IF weak # "Ok"
    THEN [calls |-> << AdjustRefcount(1, "Weak", weak) >>, rc |-> weak]
    ELSE [calls |-> << AdjustRefcount(1, "Weak", weak),
                      AdjustRefcount(1, "Strong", strong) >>,
          rc |-> strong]

\* Binder::decrease_refcounts (binder.rs 105-108)
decrease_refcounts(weak, strong) ==
    IF weak # "Ok"
    THEN [calls |-> << AdjustRefcount(-1, "Weak", weak) >>, rc |-> weak]
    ELSE [calls |-> << AdjustRefcount(-1, "Weak", weak),
                      AdjustRefcount(-1, "Strong", strong) >>,
          rc |-> strong]

\* the driver's count of one type after the calls it answered with Ok
RECURSIVE Adjusted(_, _, _)
Adjusted(count, type, driver) ==
    IF driver = <<>> THEN count
    ELSE Adjusted(IF Head(driver).type = type /\ Head(driver).rc = "Ok"
                  THEN count + Head(driver).add_value ELSE count,
                  type, Tail(driver))

\* ---------------------------------------------------------------- replies

\* payloads of the replies: QueueBufferOutput, GraphicBuffer, MultiFence, slot
Payloads == {1, 2}

\* what a reply ends with: the status (Success, two errors, a value that is
\* no ErrorCode), or nothing for a reply that ends before the status
ReplyStatuses == {<< 0 >>, << -22 >>, << -110 >>, << -1000 >>, <<>>}

TransactingMethods ==
    {"connect", "disconnect", "set_preallocated_buffer", "request_buffer",
     "dequeue_buffer", "queue_buffer"}

\* the outputs the service writes for a method, before the status
Outputs(method) ==
    CASE method \in {"connect", "queue_buffer"} -> {<< q >> : q \in Payloads}
      [] method \in {"disconnect", "set_preallocated_buffer"} -> {<<>>}
      [] method = "request_buffer" ->
            {<< 0 >>} \cup {<< 1, b >> : b \in Payloads}
      [] method = "dequeue_buffer" ->
            {<< s, 0 >> : s \in Payloads} \cup {<< s, 1, f >> : s, f \in Payloads}

\* the items of a reply
ReplyItems(outputs, status) == outputs \o status

NoReturn ==
    [rc |-> "Ok",
     out |-> <<>>,
     answered |-> FALSE,
     status |-> <<>>,
     status_at |-> 0,
     method |-> "none",
     outputs |-> <<>>]

\* Binder::new
BinderInit ==
    /\ weak_refs = 0
    /\ strong_refs = 0
    /\ driver_calls = <<>>
    /\ binder_ret = NoReturn

\* One call of a method that transacts a parcel: the request parcel is
\* written (request is the first error of the writes and end_write, if any),
\* the driver transacts it (binder.rs 78-90), and the method reads the reply.
Transacted(method, request, transact, outputs, status, returned) ==
    /\ driver_calls' = IF request = "Ok"
                       THEN << TransactParcel(method, transact) >> ELSE <<>>
    /\ binder_ret' =
          IF request # "Ok"
          THEN [NoReturn EXCEPT !.method = method, !.rc = request]
          ELSE IF transact # "Ok"
          THEN [NoReturn EXCEPT !.method = method, !.rc = transact]
          ELSE [rc |-> returned.rc,
                out |-> returned.out,
                answered |-> TRUE,
                status |-> status,
                status_at |-> returned.status_at,
                method |-> method,
                outputs |-> outputs]
    /\ UNCHANGED <<weak_refs, strong_refs, outside_binder>>

Connect ==
    \E request \in RequestResults, transact \in DriverResults,
       outputs \in Outputs("connect"), status \in ReplyStatuses :
        Transacted("connect", request, transact, outputs, status,
                   connect(Parcel(ReplyItems(outputs, status))))

Disconnect ==
    \E request \in RequestResults, transact \in DriverResults,
       outputs \in Outputs("disconnect"), status \in ReplyStatuses :
        Transacted("disconnect", request, transact, outputs, status,
                   disconnect(Parcel(ReplyItems(outputs, status))))

SetPreallocatedBuffer ==
    \E request \in RequestResults, transact \in DriverResults,
       outputs \in Outputs("set_preallocated_buffer"), status \in ReplyStatuses :
        Transacted("set_preallocated_buffer", request, transact, outputs, status,
                   set_preallocated_buffer(Parcel(ReplyItems(outputs, status))))

RequestBuffer ==
    \E request \in RequestResults, transact \in DriverResults,
       outputs \in Outputs("request_buffer"), status \in ReplyStatuses :
        Transacted("request_buffer", request, transact, outputs, status,
                   request_buffer(Parcel(ReplyItems(outputs, status))))

DequeueBuffer ==
    \E request \in RequestResults, transact \in DriverResults,
       outputs \in Outputs("dequeue_buffer"), status \in ReplyStatuses :
        Transacted("dequeue_buffer", request, transact, outputs, status,
                   dequeue_buffer(Parcel(ReplyItems(outputs, status))))

QueueBuffer ==
    \E request \in RequestResults, transact \in DriverResults,
       outputs \in Outputs("queue_buffer"), status \in ReplyStatuses :
        Transacted("queue_buffer", request, transact, outputs, status,
                   queue_buffer(Parcel(ReplyItems(outputs, status))))

\* One call of increase_refcounts / decrease_refcounts: the driver's counts
\* follow the adjustments it answered with Ok
RefcountsAdjusted(method, done) ==
    /\ Adjusted(weak_refs, "Weak", done.calls) \in 0..MaxRefs
    /\ Adjusted(strong_refs, "Strong", done.calls) \in 0..MaxRefs
    /\ weak_refs' = Adjusted(weak_refs, "Weak", done.calls)
    /\ strong_refs' = Adjusted(strong_refs, "Strong", done.calls)
    /\ driver_calls' = done.calls
    /\ binder_ret' = [NoReturn EXCEPT !.method = method, !.rc = done.rc]
    /\ UNCHANGED outside_binder

IncreaseRefcounts ==
    \E weak \in DriverResults, strong \in DriverResults :
        RefcountsAdjusted("increase_refcounts", increase_refcounts(weak, strong))

DecreaseRefcounts ==
    \E weak \in DriverResults, strong \in DriverResults :
        RefcountsAdjusted("decrease_refcounts", decrease_refcounts(weak, strong))

\* convert_nv_error_code applied to a status
ConvertNvErrorCode ==
    \E status \in StatusValues :
        \E rc \in StatusMapper(status) :
            /\ binder_ret' = [NoReturn EXCEPT !.method = "convert_nv_error_code",
                                             !.status = << status >>, !.rc = rc]
            /\ driver_calls' = <<>>
            /\ UNCHANGED <<weak_refs, strong_refs, outside_binder>>

BinderNext ==
    \/ Connect
    \/ Disconnect
    \/ SetPreallocatedBuffer
    \/ RequestBuffer
    \/ DequeueBuffer
    \/ QueueBuffer
    \/ IncreaseRefcounts
    \/ DecreaseRefcounts
    \/ ConvertNvErrorCode

\* ================================================================
\* Command adapters (macros/ipc/sf.rs) and the response parameters
\* (server.rs 41-139)
\* ================================================================

\* The types of output parameters: Copy types by size and alignment (u8,
\* u32, u64 and a 12-byte struct of u32s), sf::Handle, and mem::Shared<S>
CopyType(size, align) == [kind |-> "copy", size |-> size, align |-> align]

OutTypes ==
    {CopyType(1, 1), CopyType(4, 4), CopyType(8, 8), CopyType(12, 4),
     [kind |-> "handle", size |-> 0, align |-> 1],
     [kind |-> "session", size |-> 0, align |-> 1]}

\* the lists of output parameters of a command
RECURSIVE OutLists(_)
OutLists(n) ==
    IF n = 0 THEN {<<>>}
    ELSE OutLists(n - 1)
            \cup {Append(outs, t) : outs \in OutLists(n - 1), t \in OutTypes}

\* DataWalker::new(ptr); the null pointer is 0
DataWalker(ptr) == [base |-> ptr, offset |-> 0]

\* the offset rounded up to the alignment
AlignUp(offset, align) == ((offset + align - 1) \div align) * align

advance_Unaligned(walker, t) == [walker EXCEPT !.offset = @ + t.size]

\* DataWalker::advance::<T>
advance(walker, t) ==
    [walker EXCEPT !.offset = AlignUp(@, t.align) + t.size]

\* DataWalker::advance_set::<T>: the bytes it writes, and the walker after
advance_set(walker, t) ==
    [walker |-> [walker EXCEPT !.offset = AlignUp(@, t.align) + t.size],
     write |-> [size |-> t.size,
                addr |-> walker.base + AlignUp(walker.offset, t.align)]]

\* the adapter's context: the walker, out_params (data_offset, data_size,
\* the handles and objects pushed), the bytes written and the Result
ServerContext(data_offset) ==
    [rc |-> "Ok",
     data_offset |-> data_offset,
     raw_data_walker |-> DataWalker(0),
     data_size |-> 0,
     pushed |-> 0,
     writes |-> <<>>]

\* ResponseCommandParameter::before_response_write of one output
\* (server.rs 52-55, 93-95, 120-134); rc is the Result of what a handle or a
\* session pushes and creates
before_response_write(t, ctx, rc) ==
    IF t.kind = "copy"
    THEN [ctx EXCEPT !.raw_data_walker = advance(@, t)]
    ELSE IF rc # "Ok" THEN [ctx EXCEPT !.rc = rc]
    ELSE [ctx EXCEPT !.pushed = @ + 1]

\* ResponseCommandParameter::after_response_write of one output
\* (server.rs 57-60, 97-99, 136-138)
after_response_write(t, ctx) ==
    IF t.kind = "copy"
    THEN [ctx EXCEPT !.raw_data_walker = advance_set(@, t).walker,
                     !.writes = Append(@, advance_set(ctx.raw_data_walker, t).write)]
    ELSE ctx

\* before_response_write per output, each with `?`; the output at fail_at
\* fails if it can
RECURSIVE pass_one(_, _, _, _)
pass_one(outs, i, ctx, fail_at) ==
    IF i > Len(outs) \/ ctx.rc # "Ok" THEN ctx
    ELSE pass_one(outs, i + 1,
                  before_response_write(outs[i], ctx,
                      IF i = fail_at THEN "PushError" ELSE "Ok"),
                  fail_at)

\* after_response_write per output, each with `?`
RECURSIVE pass_two(_, _, _)
pass_two(outs, i, ctx) ==
    IF i > Len(outs) THEN ctx
    ELSE pass_two(outs, i + 1, after_response_write(outs[i], ctx))

\* sf_server_impl_<name> after the handler returned the outputs (sf.rs
\* 27-42, 84-92): pass one with a null-based walker, out_params.data_size,
\* the response header, pass two with the walker at out_params.data_offset
sf_server_impl(outs, data_offset, fail_at) ==
    LET sized(one) == [one EXCEPT !.data_size = one.raw_data_walker.offset]
        reseated(one) == [one EXCEPT !.raw_data_walker = DataWalker(one.data_offset)]
        finish(one) == IF one.rc # "Ok" THEN one
                       ELSE pass_two(outs, 1, reseated(sized(one)))
    IN  finish(pass_one(outs, 1, ServerContext(data_offset), fail_at))

\* where the response writer puts the raw data of a response in the message
\* buffer
DataOffsets == {16, 40}

\* a command about to answer: the outputs its handler returned, where the
\* response writer will put the raw data, and the output whose push fails
AdapterCall(outs, data_offset, fail_at) ==
    [ctx |-> ServerContext(data_offset),
     adapter |-> "none",
     outs |-> outs,
     fail_at |-> fail_at]

NoAdapterCall == AdapterCall(<<>>, 0, 0)

AdapterIdle == adapter_ret = NoAdapterCall

AdapterInit ==
    \E outs \in OutLists(MaxOutputs), data_offset \in DataOffsets,
       fail_at \in 0..MaxOutputs :
        adapter_ret = AdapterCall(outs, data_offset, fail_at)

\* what an adapter leaves of the command it answers
Answer(adapter, call) ==
    [call EXCEPT !.adapter = adapter,
                 !.ctx = sf_server_impl(call.outs, call.ctx.data_offset, call.fail_at)]

\* the adapter of a request command (sf.rs 20-43) runs on the outputs of its
\* handler
SfServerImpl ==
    /\ adapter_ret.adapter = "none"
    /\ adapter_ret' = Answer("request", adapter_ret)
    /\ UNCHANGED outside_adapter

\* the adapter of a control command (sf.rs 75-93)
SfControlServerImpl ==
    /\ adapter_ret.adapter = "none"
    /\ adapter_ret' = Answer("control", adapter_ret)
    /\ UNCHANGED outside_adapter

AdapterNext ==
    \/ SfServerImpl
    \/ SfControlServerImpl

\* ================================================================
\* Properties of DomainTable (checked under SpecDomain)
\* ================================================================

HolderIds(ds) == {ds[i].domain_object_id : i \in 1..Len(ds)}

NoDuplicates(s) == \A i, j \in 1..Len(s) : s[i] = s[j] => i = j

\* C1 as stated: in every reachable state the ID list `table` contains
\* exactly the domain_object_id values of the holders in `domains`.
C1_TableEqualsHolderIds ==
    Range(table) = HolderIds(domains)

\* C1 amended: every domain_object_id of a holder in `domains` is in `table`,
\* and no ID occurs twice in `table` or is bound to two holders; `table` may
\* hold further IDs that have no holder (the base object's own ID allocated
\* by convert_to_domain, an ID allocated without a holder being pushed).
C1_HolderIdsInTable ==
    /\ HolderIds(domains) \subseteq Range(table)
    /\ NoDuplicates(table)
    /\ NoDuplicates([i \in 1..Len(domains) |-> domains[i].domain_object_id])

\* C1 witness: a table with holders from which deallocate_domain has just
\* removed one, and which still holds an ID without a holder.
C1_Witness ==
    /\ dlast.op = "deallocate_domain"
    /\ Len(dlast.pre_domains) = Len(domains) + 1
    /\ Len(domains) >= 1
    /\ Range(table) # HolderIds(domains)

\* C2: allocate_id inserts and returns the smallest positive integer not in
\* the table: the result is positive, was not in the table, every smaller
\* positive integer was, and the table is the old one with the result
\* appended; so on a table holding 1..K-1 it returns K, and it returns a
\* deallocated ID again when that is the smallest unused one.
C2_AllocateIdSmallestUnused ==
    dlast.op = "allocate_id" =>
        /\ dlast.ret.ok
        /\ dlast.ret.val >= 1
        /\ dlast.ret.val \notin Range(dlast.pre_table)
        /\ \A k \in 1..(dlast.ret.val - 1) : k \in Range(dlast.pre_table)
        /\ table = Append(dlast.pre_table, dlast.ret.val)
        /\ (\A i \in 1..Len(dlast.pre_table) : dlast.pre_table[i] = i)
              => dlast.ret.val = Len(dlast.pre_table) + 1

\* C2 witness: allocate, allocate, allocate_specific_id(5),
\* deallocate_domain(1), then allocate_id has returned 1 again.
C2_Witness ==
    /\ dlast.op = "allocate_id"
    /\ dlast.pre_table = <<2, 5>>
    /\ dlast.ret = Ok(1)
    /\ table = <<2, 5, 1>>

\* C3: allocate_specific_id(id) appends id and returns it when id is not in
\* the table; when id is in the table it fails with ObjectIdAlreadyAllocated
\* and leaves table and domains unchanged.
C3_AllocateSpecificId ==
    dlast.op = "allocate_specific_id" =>
        /\ domains = dlast.pre_domains
        /\ IF dlast.arg \in Range(dlast.pre_table)
           THEN /\ dlast.ret = Err("ObjectIdAlreadyAllocated")
                /\ table = dlast.pre_table
           ELSE /\ dlast.ret = Ok(dlast.arg)
                /\ table = Append(dlast.pre_table, dlast.arg)

\* C3 witness: allocate_specific_id(2) has failed on a table holding 1, 2, 5
\* and a holder.
C3_Witness ==
    /\ dlast.op = "allocate_specific_id"
    /\ dlast.arg = 2
    /\ ~dlast.ret.ok
    /\ Range(table) = {1, 2, 5}
    /\ Len(domains) >= 1

\* ================================================================
\* Properties of Shared<T> (checked under SpecShared)
\* ================================================================

LiveCellsOfCounter(k) == {c \in Slots : cells[c].live /\ cells[c].holder = k}
LiveCellsOfObject(a) == {c \in Slots : cells[c].live /\ cells[c].object = a}

\* C4: after any sequence of new, clone/copy, to<U> and drop, use_count of
\* every live cell is the number of live cells referring to its allocation
\* (one counter per object, shared by all its cells); object and counter are
\* freed exactly once, when the last cell is dropped, and never while a
\* live cell refers to them; no freed counter is ever accessed.
C4_UseCountIsLiveCells ==
    /\ ~ub
    /\ \A c \in Slots : cells[c].live =>
          /\ cells[c].holder # Null
          /\ use_count(c) = Cardinality(LiveCellsOfObject(cells[c].object))
          /\ LiveCellsOfObject(cells[c].object) = LiveCellsOfCounter(cells[c].holder)
          /\ objects[cells[c].object].frees = 0
          /\ counters[cells[c].holder].frees = 0
    /\ \A a \in Allocs :
          /\ objects[a].frees <= 1
          /\ counters[a].frees <= 1
          /\ objects[a].allocated =>
                (objects[a].frees = 1 <=> LiveCellsOfObject(a) = {})
          /\ counters[a].allocated =>
                (counters[a].frees = 1 <=> LiveCellsOfCounter(a) = {})
          /\ counters[a].frees = 1 => counters[a].value = 0

\* C4 witness: one allocation was freed by the drop of its last cell while
\* another is shared by three cells, one of them made by to<U>.
C4_Witness ==
    /\ slast.op = "drop"
    /\ \E a \in Allocs : objects[a].frees = 1 /\ counters[a].frees = 1
    /\ \E c \in Slots :
          /\ cells[c].live
          /\ use_count(c) = 3
          /\ \E d \in LiveCellsOfObject(cells[c].object) : cells[d].view = "U"

\* ---------------------------------------------------------------- reset (checked under SpecReset)

\* the live cells that still hold a reference to an object: those on which
\* reset was not called
Referring(a) == {c \in LiveCellsOfObject(a) : ~cells[c].reset}

\* C33: reset releases the reference of its cell exactly once: the drop of
\* the cell later on does not decrement the counter again, so the count the
\* other clones see is the number of cells still referring to the object,
\* and the object is not freed while one of them is live; no counter is
\* touched after it was deleted.
C33_ResetReleasesOnce ==
    /\ ~ub
    /\ \A c \in Slots : cells[c].live /\ ~cells[c].reset =>
          /\ objects[cells[c].object].frees = 0
          /\ counters[cells[c].holder].frees = 0
          /\ use_count(c) = Cardinality(Referring(cells[c].object))
    /\ \A a \in Allocs : objects[a].frees <= 1

\* ================================================================
\* Properties of the ServerManager (checked under Spec)
\* ================================================================

\* the last step is a call of process() that returned
ProcessReturned == step.kind \in {"port", "session", "wait_error"}

\* the last step is a call of process() that parsed a request
RequestStep == step.kind = "session" /\ step.command = "request"

\* the holder the last call found for the signaled handle
SignaledHolder == step.pre_holders[FindHolder(step.pre_holders, step.handle)]

\* what reply_impl returned in the last call
ReplyOutcome == step.replies[1].result

\* C5: after process_signaled_handle handles a session-close event on handle
\* h (the receive fails with SessionClosed, or a Close command is received),
\* server_holders has exactly one holder less, the holder removed is the one
\* with info.handle = h, and h is not among the handles the next
\* prepare_wait_handles builds.
C5_CloseRemovesHolder ==
    step.closed =>
        /\ Len(server_holders) = Len(step.pre_holders) - 1
        /\ server_holders = Remove(step.pre_holders,
                                   FindHolder(step.pre_holders, step.handle))
        /\ step.handle \notin Range(prepare_wait_handles(server_holders).handles)

\* the last step is a call of process() whose receive failed with
\* SessionClosed
ReceiveClosed == step.kind = "session" /\ step.closed /\ step.command = "none"

\* C11: when the receive on a signaled session handle h fails with
\* SessionClosed, the call returns Ok, dispatches nothing and sends no reply,
\* the holder with handle h is the only one removed, and every other holder
\* keeps its place in the order, its handle, its server object and its domain
\* table.
C11_SessionClosedRemovesOnlyThatHolder ==
    ReceiveClosed =>
        LET pre == step.pre_holders
            index == FindHolder(pre, step.handle)
        IN  /\ step.result = "Ok"
            /\ step.lookup = "none" /\ step.adapters = 0
            /\ step.sent = <<>> /\ step.written = <<>> /\ step.replies = <<>>
            /\ Len(server_holders) = Len(pre) - 1
            /\ \A i \in 1..Len(server_holders) :
                   /\ server_holders[i].handle # step.handle
                   /\ server_holders[i] = pre[IF i < index THEN i ELSE i + 1]
                   /\ server_holders[i].domain_table # 0 =>
                          dtables[server_holders[i].domain_table]
                              = step.pre_tables[server_holders[i].domain_table]

\* a session is closed by its client while another holder, which is a domain,
\* stands after it in the list
C11_Witness ==
    /\ ReceiveClosed
    /\ FindHolder(step.pre_holders, step.handle) < Len(step.pre_holders)
    /\ \E i \in 1..Len(server_holders) : server_holders[i].domain_table # 0

\* the last step is a call of process() that received a Request, Control or
\* Close command on a session
CommandReceived ==
    step.kind = "session" /\ step.delivered.type \in {"Request", "Control", "Close"}

\* the one reply of the last call went to the signaled session, carried the
\* message buffer as dispatch left it, and decided the Result of process():
\* Ok for Ok, TimedOut and SessionClosed, the error itself otherwise
RepliedOnce ==
    /\ Len(step.replies) = 1
    /\ step.replies[1].handle = step.handle
    /\ step.replies[1].buffer = msg_buffer
    /\ step.result = IF step.replies[1].kernel \in {"Ok", "TimedOut", "SessionClosed"}
                     THEN "Ok" ELSE step.replies[1].kernel

DispatchErrors ==
    {"InvalidInputHeader", "InvalidDomainCommandType", "DomainNotFound",
     "SignaledServerNotFound", "InvalidProtocol"}

CloneServed ==
    /\ step.kind = "session" /\ step.command = "control"
    /\ HipcCommand(step.delivered.rq_id) \in CloneCommands
    /\ step.adapter_rc = "Success"

\* the server object a request on the holder is dispatched to
ServedBy(server_holder) ==
    target_server(Dispatch(server_holders, dtables, msg_buffer), server_holder,
                  request_context(server_holder, 0),
                  server_holder.domain_table).object

\* C13: when clone_current_object (or _ex) succeeds on a session holder that
\* is neither a domain nor a MITM holder, exactly one holder is appended: its
\* handle is the server half of a new session pair, the client half is in
\* the response as the handle moved to the caller, its server object is the
\* original holder's, the original holder is unchanged, and a request on
\* either handle is dispatched to that same object.
C13_CloneSharesServer ==
    CloneServed /\ ~SignaledHolder.is_mitm_service
                /\ ~is_domain(SignaledHolder.domain_object_id) =>
        LET pre == step.pre_holders
            cloned == server_holders[Len(pre) + 1]
            response == step.replies[1].buffer
        IN  /\ Len(server_holders) = Len(pre) + 1
            /\ SubSeq(server_holders, 1, Len(pre)) = pre
            /\ cloned.handle_type = "Session"
            /\ cloned.handle \notin OpenHandles(pre) \cup {INVALID_HANDLE}
            /\ response.rc = "Success"
            /\ response.out \notin OpenHandles(pre) \cup {INVALID_HANDLE, cloned.handle}
            /\ cloned.server = SignaledHolder.server
            /\ cloned.server # 0
            /\ ServedBy(cloned) = SignaledHolder.server
            /\ ServedBy(server_holders[FindHolder(server_holders, step.handle)])
                   = SignaledHolder.server

\* a plain session is cloned while another session is registered
C13_Witness ==
    /\ CloneServed /\ ~SignaledHolder.is_mitm_service
    /\ ~is_domain(SignaledHolder.domain_object_id)
    /\ Len(step.pre_holders) = 2
    /\ Len(server_holders) = 3

\* the last step is a call of process() that served
\* convert_current_object_to_domain on a MITM session holder that was not a
\* domain, and the upstream was asked to convert
ConvertServedOnMitm ==
    /\ step.kind = "session" /\ step.command = "control"
    /\ HipcCommand(step.delivered.rq_id) = "convert_current_object_to_domain"
    /\ SignaledHolder.is_mitm_service
    /\ step.upstream # <<>>

\* C14: when convert_current_object_to_domain is served on a MITM session
\* holder and the upstream conversion returns the ID X, the holder's domain
\* table then holds exactly the ID X, and the holder's domain_object_id and
\* its mitm_forward_info.domain_object_id are X; the upstream is asked while
\* the table holds no ID, and when it fails none is allocated.
C14_MitmConvertUsesUpstreamId ==
    ConvertServedOnMitm =>
        LET holder == server_holders[FindHolder(server_holders, step.handle)]
            asked == step.upstream[1]
        IN  /\ Len(step.upstream) = 1
            /\ asked.ids = <<>>
            /\ holder.domain_table # 0
            /\ asked.rc = "Ok" =>
                   /\ dtables[holder.domain_table].table = << asked.id >>
                   /\ holder.domain_object_id = asked.id
                   /\ holder.fwd_domain_object_id = asked.id
                   /\ step.adapter_rc = "Success"
            /\ asked.rc # "Ok" =>
                   /\ dtables[holder.domain_table].table = <<>>
                   /\ holder.domain_object_id = 0
                   /\ step.adapter_rc = asked.rc

\* the upstream of a MITM session converts and returns an ID other than the
\* one allocate_id would give
C14_Witness ==
    /\ ConvertServedOnMitm
    /\ step.upstream[1].rc = "Ok"
    /\ step.upstream[1].id = 2

\* the holders the last step took out of the list
Gone == Removed(step.pre_holders, server_holders)

\* what the last step's destruction did for the holder with the handle
DestroyedAs(handle) ==
    SelectSeq(step.destroyed, LAMBDA d : d.handle = handle)

\* the holder's destruction closed its handle once, closed its forward
\* session if it has one, and unregistered its service name if it has one
CleanedUp(holder) ==
    /\ Len(DestroyedAs(holder.handle)) = 1
    /\ DestroyedAs(holder.handle)[1].closed = << holder.handle >>
    /\ holder.fwd_handle # INVALID_HANDLE =>
           DestroyedAs(holder.handle)[1].forward_closed = << holder.fwd_handle >>
    /\ DestroyedAs(holder.handle)[1].unregistered = holder.service_name

\* C15: no two holders of the manager have the same nonzero handle; a holder
\* that is removed (session close or teardown of the manager) has its owned
\* handle closed exactly once, its MITM forward session closed if it has one
\* and its service name, if not empty, unregistered; and no handle of a
\* holder still in the list is closed.
C15_HandlesOwnedAndClosed ==
    /\ \A i, j \in 1..Len(server_holders) :
           i # j /\ server_holders[i].handle # INVALID_HANDLE =>
               server_holders[i].handle # server_holders[j].handle
    /\ \A i \in 1..Len(Gone) : CleanedUp(Gone[i])
    /\ \A i \in 1..Len(step.destroyed) :
           Range(step.destroyed[i].closed) \cap OpenHandles(server_holders) = {}

\* C16: when a step of ServerHolder::close fails while a holder is destroyed
\* (the service manager's unregistration, detach_client or close_handle
\* returns an error), the destruction does not panic, the cleanup steps after
\* the failed one still run (the handle and the forward session are closed),
\* and the holders after it are destroyed as well.
C16_CloseFailureDoesNotPanic ==
    \A i \in 1..Len(step.destroyed) :
        step.destroyed[i].rc # "Ok" =>
            /\ ~step.destroyed[i].panic
            /\ step.destroyed[i].closed = << step.destroyed[i].handle >>
            /\ Len(step.destroyed) = Len(step.pre_holders)
            /\ loop_state # "panicked_in_drop"

\* ---------------------------------------------------------------- requests on domains

\* the request the last call parsed, and the object info of its context
ParsedRequest ==
    read_request_command_from_msg_buffer(
        is_domain(SignaledHolder.domain_object_id), step.delivered)

RequestContext == request_context(SignaledHolder, ParsedRequest.object_id)

\* the last call parsed a request on a holder in domain mode
DomainRequestStep == RequestStep /\ is_domain(SignaledHolder.domain_object_id)

\* the last request reached do_handle_request
RequestDispatched == RequestStep /\ Dispatches(RequestContext, ParsedRequest)

\* the object bound to an ID in the table of the signaled holder, as the
\* table stood before the call
BoundObject(id) ==
    IF SignaledHolder.domain_table = 0 THEN Err("DomainNotFound")
    ELSE find_domain(step.pre_tables[SignaledHolder.domain_table].domains, id)

\* C21 as stated: a dispatched request on a holder in domain mode goes to the
\* holder's own server object when the addressed ID is the holder's own, and
\* otherwise to the object bound to that ID in the holder's domain table; on
\* a holder not in domain mode it goes to the holder's own server object.
C21_TargetByOwnership ==
    RequestDispatched /\ step.target # 0 =>
        IF ~is_domain(SignaledHolder.domain_object_id)
           \/ ParsedRequest.object_id = SignaledHolder.domain_object_id
        THEN step.target = SignaledHolder.server
        ELSE /\ BoundObject(ParsedRequest.object_id).ok
             /\ step.target = BoundObject(ParsedRequest.object_id).val

\* C21 amended: on a holder in domain mode a request addressed to an ID that
\* is neither 0 nor the holder's own goes to the object bound to that ID in
\* the holder's table, and fails with DomainNotFound, running no adapter,
\* when none is bound; a request addressed to the holder's own ID or to ID 0
\* goes to the holder's own server object, as does every request on a holder
\* not in domain mode.
C21_TargetOfRequest ==
    RequestDispatched =>
        IF /\ is_domain(SignaledHolder.domain_object_id)
           /\ ParsedRequest.object_id \notin {0, SignaledHolder.domain_object_id}
        THEN IF BoundObject(ParsedRequest.object_id).ok
             THEN step.target = BoundObject(ParsedRequest.object_id).val
             ELSE /\ step.target = 0
                  /\ step.result = "DomainNotFound"
                  /\ step.adapters = 0
        ELSE step.target = SignaledHolder.server

\* a request to a non-base object of a domain reached that object
C21_Witness ==
    /\ DomainRequestStep /\ RequestDispatched
    /\ ~RequestContext.owns_handle
    /\ BoundObject(ParsedRequest.object_id).ok
    /\ step.target = BoundObject(ParsedRequest.object_id).val
    /\ step.target # SignaledHolder.server
    /\ step.adapters = 1

\* the last request went through do_handle_request: the target was resolved,
\* or its resolution failed
WentThroughDispatch ==
    \/ step.target # 0 /\ step.lookup # "none"
    \/ step.target = 0 /\ step.result \in {"DomainNotFound", "SignaledServerNotFound"}

\* C22: a parsed request whose domain command type is SendMessage is
\* dispatched; one whose type is Invalid is dispatched when the addressed
\* object is not a domain, and on a domain object it is rejected with
\* InvalidDomainCommandType: no target is resolved, no adapter runs, nothing
\* is written, forwarded or replied.
C22_DomainCommandType ==
    RequestStep =>
        /\ ParsedRequest.domain_cmd = "SendMessage" => WentThroughDispatch
        /\ ParsedRequest.domain_cmd = "Invalid" /\ ~RequestContext.is_domain
              => WentThroughDispatch
        /\ ParsedRequest.domain_cmd = "Invalid" /\ RequestContext.is_domain
              => /\ step.result = "InvalidDomainCommandType"
                 /\ step.target = 0 /\ step.lookup = "none"
                 /\ step.adapters = 0
                 /\ step.written = <<>> /\ step.sent = <<>> /\ step.replies = <<>>
                 /\ server_holders = step.pre_holders

\* an Invalid domain header addressed to an object of a domain was rejected
C22_Witness ==
    /\ DomainRequestStep
    /\ ParsedRequest.domain_cmd = "Invalid"
    /\ RequestContext.is_domain
    /\ step.result = "InvalidDomainCommandType"
    /\ loop_result = "InvalidDomainCommandType"

\* the last call parsed a domain Close command
DomainCloseStep ==
    DomainRequestStep /\ ParsedRequest.rc = "Ok" /\ ParsedRequest.domain_cmd = "Close"

\* the table of the signaled holder lost ID d and the holder bound to d, and
\* nothing else changed: the other IDs and holders of the table, the other
\* tables, server_holders; no adapter ran
ClosedObjectRemoved(d) ==
    LET dt == SignaledHolder.domain_table
        before == step.pre_tables[dt]
    IN  /\ dtables[dt].table = SelectSeq(before.table, LAMBDA id : id # d)
        /\ dtables[dt].domains
              = SelectSeq(before.domains, LAMBDA h : h.domain_object_id # d)
        /\ ~find_domain(dtables[dt].domains, d).ok
        /\ \A t \in TableIds \ {dt} : dtables[t] = step.pre_tables[t]
        /\ server_holders = step.pre_holders
        /\ step.adapters = 0 /\ step.target = 0

\* the client was sent one reply, a response with success status and no body
RepliedSuccess ==
    /\ Len(step.replies) = 1
    /\ step.replies[1].handle = step.handle
    /\ step.replies[1].buffer = Response("Request", "Success")

\* C23: a domain Close addressed to a non-base object ID d removes d from the
\* ID set and the holder bound to d from the domains list of the table,
\* leaves every other ID and holder, the other tables and server_holders
\* unchanged, runs no adapter, and the client is sent a reply with success
\* status and no payload body.
C23_DomainCloseRemovesObject ==
    DomainCloseStep /\ ~RequestContext.owns_handle =>
        /\ ClosedObjectRemoved(ParsedRequest.object_id)
        /\ RepliedSuccess

\* C24: a domain Close addressed to the object that owns the kernel handle is
\* answered with an error: an error response is written to the message buffer
\* before the reply is sent, and the domain tables and the holders are
\* unchanged.
C24_CloseOfOwnerIsError ==
    DomainCloseStep /\ RequestContext.owns_handle =>
        /\ step.written # <<>>
        /\ Len(step.replies) = 1
        /\ step.replies[1].buffer.kind = "response"
        /\ step.replies[1].buffer.rc # "Success"
        /\ dtables = step.pre_tables
        /\ server_holders = step.pre_holders

\* ---------------------------------------------------------------- accepting sessions

\* the last call was for a signaled port
PortStep == step.kind = "port"

\* the holder appended for a session accepted on a port: a Session holder
\* with a handle and a server object nothing had before, no domain table, and
\* for a MITM port a forward handle that is new too
AcceptedHolder(new, port) ==
    /\ new.handle_type = "Session"
    /\ new.handle \notin OpenHandles(step.pre_holders) \cup {INVALID_HANDLE}
    /\ new.server \notin LiveObjects(step.pre_holders, step.pre_tables) \cup {0}
    /\ new.domain_table = 0 /\ new.domain_object_id = 0
    /\ new.service_name = ""
    /\ new.is_mitm_service = port.is_mitm_service
    /\ IF port.is_mitm_service
       THEN new.fwd_handle \notin
                OpenHandles(step.pre_holders) \cup {INVALID_HANDLE, new.handle}
       ELSE new.fwd_handle = INVALID_HANDLE

\* one holder was appended at the end of server_holders, the rest is as before
OneHolderAppended ==
    /\ Len(server_holders) = Len(step.pre_holders) + 1
    /\ SubSeq(server_holders, 1, Len(step.pre_holders)) = step.pre_holders
    /\ AcceptedHolder(server_holders[Len(server_holders)], SignaledHolder)

\* C25 as stated: whenever a port handle is signaled, one session is
\* accepted and one holder for it is appended at the end of server_holders.
C25_PortAlwaysAppends == PortStep => OneHolderAppended

\* C25 amended: when accept_session and, on a MITM port, the service-manager
\* calls succeed, exactly one holder is appended at the end of server_holders
\* (a Session with the accepted handle, a fresh server object, no domain
\* table, the forward handle of the acknowledgement on a MITM port and 0
\* otherwise) and the other holders are unchanged; when one of them fails
\* the error is returned and server_holders is unchanged.
C25_PortAppendsOnSuccess ==
    PortStep =>
        IF step.result = "Ok" THEN OneHolderAppended
        ELSE server_holders = step.pre_holders

\* a session was accepted on a MITM port
C25_Witness ==
    /\ PortStep /\ step.result = "Ok"
    /\ SignaledHolder.is_mitm_service
    /\ OneHolderAppended
    /\ server_holders[Len(server_holders)].is_mitm_service
    /\ server_holders[Len(server_holders)].fwd_handle # INVALID_HANDLE

\* ---------------------------------------------------------------- session objects as outputs

\* the last request ran an adapter
AdapterRan == RequestStep /\ step.adapters > 0

\* the session objects that existed before the last call
ObjectsBefore == LiveObjects(step.pre_holders, step.pre_tables)

\* the IDs emitted were allocated in the table of the session and each is
\* bound to a new object by a holder added to its domains list; no kernel
\* session was made and server_holders is as before
EmittedAsDomainObjects ==
    LET dt == SignaledHolder.domain_table
        before == step.pre_tables[dt]
        added == SubSeq(dtables[dt].domains, Len(before.domains) + 1,
                        Len(dtables[dt].domains))
    IN  /\ step.move_handles = <<>>
        /\ server_holders = step.pre_holders
        /\ SubSeq(dtables[dt].domains, 1, Len(before.domains)) = before.domains
        /\ Len(added) = Len(step.objects)
        /\ \A i \in 1..Len(step.objects) :
              /\ ~Contains(before.table, step.objects[i])
              /\ Contains(dtables[dt].table, step.objects[i])
              /\ added[i].domain_object_id = step.objects[i]
              /\ added[i].server \notin ObjectsBefore \cup {0}

\* for each move handle emitted a kernel session was made and a holder for
\* its server half appended to server_holders; the domain tables are as
\* before
EmittedAsKernelSessions ==
    LET added == SubSeq(server_holders, Len(step.pre_holders) + 1,
                        Len(server_holders))
    IN  /\ step.objects = <<>>
        /\ dtables = step.pre_tables
        /\ SubSeq(server_holders, 1, Len(step.pre_holders)) = step.pre_holders
        /\ Len(added) = Len(step.move_handles)
        /\ \A i \in 1..Len(step.move_handles) :
              /\ added[i].handle_type = "Session"
              /\ added[i].handle
                    \notin OpenHandles(step.pre_holders)
                            \cup Range(step.move_handles) \cup {INVALID_HANDLE}
              /\ step.move_handles[i]
                    \notin OpenHandles(step.pre_holders) \cup {INVALID_HANDLE}
              /\ added[i].server \notin ObjectsBefore \cup {0}
              /\ added[i].domain_table = 0

\* C26: the session objects an adapter returns are emitted as domain object
\* IDs, allocated in the session's domain table and bound by holders added
\* to its domains list, when the addressed object is a domain (no kernel
\* session is made, server_holders does not grow), and otherwise as the
\* client halves of new kernel sessions, moved, with a holder for each server
\* half appended to server_holders by the end of the dispatch.
C26_SessionObjectOutput ==
    AdapterRan =>
        IF RequestContext.is_domain THEN EmittedAsDomainObjects
        ELSE EmittedAsKernelSessions

\* an adapter returned a session object on a domain
C26_Witness ==
    /\ AdapterRan /\ RequestContext.is_domain
    /\ Len(step.objects) = 1
    /\ EmittedAsDomainObjects

\* ---------------------------------------------------------------- conversion to a domain

\* the last call served convert_current_object_to_domain
ConvertStep ==
    /\ step.kind = "session" /\ step.command = "control"
    /\ HipcCommand(step.delivered.rq_id) = "convert_current_object_to_domain"

\* the signaled holder as the last call left it
SignaledHolderAfter == server_holders[FindHolder(server_holders, step.handle)]

\* C27: convert_to_domain on a holder that is already a domain fails with
\* AlreadyDomain and leaves the holder, its domain table and its
\* domain_object_id unchanged; on a non-MITM holder that is not a domain it
\* succeeds and returns ID 1, the holder's domain_object_id becomes 1 and its
\* new table holds ID 1 (so a second conversion of the holder fails).
C27_ConvertOnce ==
    ConvertStep =>
        IF is_domain(SignaledHolder.domain_object_id)
        THEN /\ step.adapter_rc = "AlreadyDomain"
             /\ step.written = <<"AlreadyDomain">>
             /\ server_holders = step.pre_holders
             /\ dtables = step.pre_tables
        ELSE ~SignaledHolder.is_mitm_service =>
             /\ step.adapter_rc = "Success"
             /\ step.replies[1].buffer = ResponseWith("Control", "Success", 1)
             /\ SignaledHolderAfter.domain_object_id = 1
             /\ is_domain(SignaledHolderAfter.domain_object_id)
             /\ SignaledHolderAfter.domain_table # 0
             /\ dtables[SignaledHolderAfter.domain_table]
                    = [table |-> <<1>>, domains |-> <<>>]

\* a second conversion of a holder failed, after its table had gained an
\* object
C27_Witness ==
    /\ ConvertStep
    /\ SignaledHolder.domain_object_id = 1
    /\ step.pre_tables[SignaledHolder.domain_table].domains # <<>>
    /\ step.written = <<"AlreadyDomain">>
    /\ dtables = step.pre_tables

\* ---------------------------------------------------------------- the pointer buffer size

\* the last call served query_pointer_buffer_size
QueryStep ==
    /\ step.kind = "session" /\ step.command = "control"
    /\ HipcCommand(step.delivered.rq_id) = "query_pointer_buffer_size"

\* C28: the value query_pointer_buffer_size answers is the manager's pointer
\* buffer size P, for every P the manager is instantiated with.
C28_QueryReturnsP ==
    QueryStep =>
        /\ step.adapter_rc = "Success"
        /\ step.replies[1].buffer = ResponseWith("Control", "Success", P)

\* ---------------------------------------------------------------- errors of process()

\* the errors of process() that come from the kernel or the service manager
\* (svc::reply_and_receive, svc::accept_session, sm calls) or from a signaled
\* handle that no holder has
ServerFailures ==
    {"KernelError", "TimedOut", "SessionClosed", "Cancelled", "SmError",
     "DetachError", "SignaledServerNotFound"}

\* the last call received a message on a session
ReceivedMessage == step.kind = "session" /\ step.delivered.kind = "message"

\* C31: whatever message a client sends, process() returns Ok or fails with
\* an error of the kernel, of the service manager or of a missing holder, so
\* that no message content ends loop_process: a request on an unknown domain
\* object ID, an invalid domain command type and an unknown command type are
\* answered with an error response or dropped, and process() returns Ok.
C31_ContentNeverEndsLoop ==
    ReceivedMessage =>
        /\ step.result \in {"Ok"} \cup ServerFailures
        /\ loop_state = "returned" => loop_result \in {"Ok"} \cup ServerFailures

\* ---------------------------------------------------------------- a conversion that fails

\* the last call served convert_current_object_to_domain and convert_to_domain
\* failed
ConvertFailed == ConvertStep /\ step.adapter_rc # "Success"

\* a holder has a domain table exactly when it is in domain mode
TableIffDomain(holder) ==
    holder.domain_table # 0 <=> holder.domain_object_id # 0

\* C32: a convert_to_domain that fails (AlreadyDomain, or the conversion of
\* the upstream session failed, or ObjectIdAlreadyAllocated) leaves the
\* holder's domain_table, info.domain_object_id and mitm_forward_info as they
\* were, so that every holder has a domain table exactly when its
\* domain_object_id is not 0.
C32_ConvertFailureIsAtomic ==
    /\ ConvertFailed =>
          /\ SignaledHolderAfter.domain_table = SignaledHolder.domain_table
          /\ SignaledHolderAfter.domain_object_id = SignaledHolder.domain_object_id
          /\ SignaledHolderAfter.fwd_domain_object_id
                 = SignaledHolder.fwd_domain_object_id
          /\ SignaledHolderAfter.fwd_handle = SignaledHolder.fwd_handle
    /\ \A i \in 1..Len(server_holders) : TableIffDomain(server_holders[i])

\* ---------------------------------------------------------------- a forwarding that fails

\* the last call forwarded a request to the upstream session and
\* send_sync_request failed
ForwardFailed ==
    RequestStep /\ \E i \in 1..Len(step.sent) : step.sent[i].result # "Ok"

\* the rc send_sync_request returned
ForwardRc == step.sent[Len(step.sent)].result

\* the manager answered the failed forwarding: the one response written and
\* the one reply carry the rc of send_sync_request, and the signaled holder
\* stays in server_holders as it was
ForwardErrorAnswered ==
    /\ step.written = <<ForwardRc>>
    /\ Len(step.replies) = 1
    /\ step.replies[1].handle = step.handle
    /\ step.replies[1].buffer = Response("Request", ForwardRc)
    /\ FindHolder(server_holders, step.handle) <= Len(server_holders)
    /\ SignaledHolderAfter = SignaledHolder

\* C34 as stated: when the forwarding of a request to the upstream session
\* fails with rc, the manager writes an error response carrying rc, replies
\* it to the client, process() returns Ok and the holder stays.
C34_ForwardErrorReturnsOk ==
    ForwardFailed => ForwardErrorAnswered /\ step.result = "Ok"

\* C34, amended: the same, except that process() returns what the reply to
\* the client makes of it: Ok, or the error of reply_and_receive when that is
\* neither TimedOut nor SessionClosed; it never returns the rc of the
\* forwarding as such.
C34_ForwardErrorAnswered ==
    ForwardFailed => ForwardErrorAnswered /\ step.result = ReplyOutcome

\* an adapter of a MITM session asked for forwarding, the forwarding failed,
\* and the error response was replied
C34_Witness ==
    /\ ForwardFailed
    /\ step.adapter_rc = "ShouldForwardToSession"
    /\ ForwardRc = "KernelError"
    /\ step.replies[1].result = "Ok"
    /\ step.result = "Ok"

\* ---------------------------------------------------------------- an adapter that fails

\* the adapter of the last request failed and the manager wrote the error
\* response for it
AdapterFailedAnswered ==
    /\ AdapterRan
    /\ step.adapter_rc # "Success"
    /\ step.written = <<step.adapter_rc>>

\* C35: when the adapter of a request fails and the error response is
\* written, server_holders is after the call what it was before, also when
\* the adapter fails after a session object among its outputs had a kernel
\* session pair created.
C35_FailedAdapterAddsNoHolder ==
    AdapterFailedAnswered => server_holders = step.pre_holders

\* ---------------------------------------------------------------- the MITM status of a clone

\* the last call served clone_current_object or clone_current_object_ex
CloneStep ==
    /\ step.kind = "session" /\ step.command = "control"
    /\ HipcCommand(step.delivered.rq_id) \in CloneCommands

\* C37: the holder a successful clone_current_object (or _ex) adds has the
\* MITM status of the holder it was cloned from: the clone of a MITM holder
\* is a MITM holder whose forward handle is not 0 and is not the original's
\* (the upstream session was cloned), the clone of any other holder is not
\* MITM and has forward handle 0. When the command fails (the clone of the
\* upstream session failed, or no session pair could be created), no holder
\* is added.
C37_CloneKeepsMitmStatus ==
    CloneStep =>
        LET pre == step.pre_holders
            cloned == server_holders[Len(pre) + 1]
        IN  IF step.adapter_rc = "Success"
            THEN /\ Len(server_holders) = Len(pre) + 1
                 /\ SubSeq(server_holders, 1, Len(pre)) = pre
                 /\ cloned.is_mitm_service = SignaledHolder.is_mitm_service
                 /\ IF SignaledHolder.is_mitm_service
                    THEN cloned.fwd_handle \notin
                             {INVALID_HANDLE, SignaledHolder.fwd_handle,
                              cloned.handle}
                    ELSE cloned.fwd_handle = INVALID_HANDLE
            ELSE server_holders = pre

\* a MITM session was cloned
C37_Witness ==
    /\ CloneStep /\ step.adapter_rc = "Success"
    /\ SignaledHolder.is_mitm_service
    /\ SignaledHolder.fwd_handle # INVALID_HANDLE
    /\ Len(server_holders) = Len(step.pre_holders) + 1
    /\ server_holders[Len(server_holders)].is_mitm_service

\* C6: server_holders never holds more than MAX_OBJECT_COUNT holders, and
\* prepare_wait_handles never indexes past the end of wait_handles.
C6_HoldersWithinCapacity ==
    /\ Len(server_holders) <= MAX_COUNT
    /\ loop_state # "panicked"

\* C7: every request the manager sends to the upstream service of a MITM
\* holder carries the message buffer exactly as the kernel delivered it,
\* whatever was written to the buffer in between, and when the upstream
\* answers, its reply is the buffer replied to the client.
C7_ForwardSendsDeliveredBytes ==
    RequestStep /\ step.sent # <<>> =>
        /\ \A i \in 1..Len(step.sent) :
              /\ step.sent[i].buffer = step.delivered
              /\ step.sent[i].handle = SignaledHolder.fwd_handle
        /\ step.written = <<>> =>
              /\ Len(step.replies) = 1
              /\ step.replies[1].buffer = UpstreamReply(step.delivered)
              /\ step.replies[1].handle = step.handle

C7_Witness ==
    /\ RequestStep
    /\ step.adapter_rc = "ShouldForwardToSession"
    /\ Len(step.sent) = 1
    /\ step.written = <<>>
    /\ step.replies # <<>>
    /\ step.replies[1].buffer = UpstreamReply(step.delivered)

\* C8 as stated: a request whose id matches no entry of the command table is
\* forwarded on a MITM holder, without any adapter running; on any other
\* holder an InvalidCommandRequestId response is written, nothing is
\* forwarded, and process() returns Ok.
C8_NotFoundReturnsOk ==
    RequestStep /\ step.lookup = "not_found" =>
        IF SignaledHolder.is_mitm_service
        THEN /\ Len(step.sent) = 1
             /\ step.sent[1].handle = SignaledHolder.fwd_handle
             /\ step.adapters = 0
        ELSE /\ step.written = <<"InvalidCommandRequestId">>
             /\ step.replies[1].buffer = Response("Request", "InvalidCommandRequestId")
             /\ step.sent = <<>>
             /\ step.result = "Ok"

\* C8, amended: the same, except that process() returns what the reply to
\* the client makes of it: Ok, or the error of the reply when that is
\* neither TimedOut nor SessionClosed.
C8_NotFound ==
    RequestStep /\ step.lookup = "not_found" =>
        IF SignaledHolder.is_mitm_service
        THEN /\ Len(step.sent) = 1
             /\ step.sent[1].handle = SignaledHolder.fwd_handle
             /\ step.adapters = 0
        ELSE /\ step.written = <<"InvalidCommandRequestId">>
             /\ step.replies[1].buffer = Response("Request", "InvalidCommandRequestId")
             /\ step.sent = <<>>
             /\ step.result = ReplyOutcome

C8_Witness ==
    /\ RequestStep
    /\ step.lookup = "not_found"
    /\ ~SignaledHolder.is_mitm_service
    /\ step.replies[1].result = "KernelError"
    /\ step.result = "KernelError"

\* C9: when a matched adapter returns an error rc, a MITM holder with rc
\* ShouldForwardToSession forwards the request and writes no error response
\* for rc; in every other case the buffer replied is an error response
\* carrying rc, nothing is forwarded, and process() does not return rc.
C9_AdapterError ==
    RequestStep /\ step.adapters > 0 /\ step.adapter_rc # "Success" =>
        IF SignaledHolder.is_mitm_service
           /\ step.adapter_rc = "ShouldForwardToSession"
        THEN /\ Len(step.sent) = 1
             /\ step.sent[1].handle = SignaledHolder.fwd_handle
             /\ step.adapter_rc \notin Range(step.written)
        ELSE /\ step.written = <<step.adapter_rc>>
             /\ step.replies[1].buffer = Response("Request", step.adapter_rc)
             /\ step.sent = <<>>
             /\ step.result = ReplyOutcome
             /\ step.result # step.adapter_rc

C9_Witness ==
    /\ RequestStep
    /\ step.adapter_rc = "ShouldForwardToSession"
    /\ ~SignaledHolder.is_mitm_service
    /\ step.written = <<"ShouldForwardToSession">>
    /\ step.result = "Ok"

\* C10: loop_process returns only after a process() that failed, with Ok
\* exactly when that failure is Cancelled and with the same error otherwise;
\* after a process() that returned Ok the loop goes on.
C10_LoopProcess ==
    /\ loop_state = "returned" =>
          /\ ProcessReturned
          /\ step.result # "Ok"
          /\ loop_result = IF step.result = "Cancelled" THEN "Ok" ELSE step.result
    /\ ProcessReturned /\ step.result = "Ok" => loop_state = "looping"
    /\ ProcessReturned /\ step.result # "Ok" => loop_state = "returned"

C10_Witness ==
    /\ loop_state = "returned"
    /\ loop_result = "Ok"
    /\ step.kind = "session"
    /\ step.result = "Cancelled"

\* ================================================================
\* Properties of Binder (checked under SpecBinder)
\* ================================================================

\* the last step is a call of a parcel-transacting method whose reply the
\* driver delivered, complete with its trailing status
Answered ==
    /\ binder_ret.method \in TransactingMethods
    /\ binder_ret.answered
    /\ binder_ret.status # <<>>

\* C17: every parcel-transacting method of Binder (connect, disconnect,
\* set_preallocated_buffer, request_buffer, dequeue_buffer, queue_buffer)
\* reads the trailing status of the reply after its own outputs, returns an
\* error whenever the status is not zero, and returns Ok only when it is
\* Success.
C17_TrailingStatusChecked ==
    Answered =>
        /\ binder_ret.status_at = Len(binder_ret.outputs) + 1
        /\ binder_ret.status[1] # 0 => binder_ret.rc # "Ok"
        /\ binder_ret.rc = "Ok" => binder_ret.status[1] = 0

\* the last step applied convert_nv_error_code to a status
Converted == binder_ret.method = "convert_nv_error_code"

RefcountsCalled ==
    binder_ret.method \in {"increase_refcounts", "decrease_refcounts"}

\* C20: increase_refcounts asks the driver for weak +1 and then strong +1,
\* decrease_refcounts for weak -1 and then strong -1; when the weak
\* adjustment fails the strong one is not asked for and the error is
\* returned.
C20_WeakBeforeStrong ==
    RefcountsCalled =>
        LET add_value == IF binder_ret.method = "increase_refcounts" THEN 1 ELSE -1
            first == driver_calls[1]
        IN  /\ Len(driver_calls) \in {1, 2}
            /\ first.op = "adjust_refcount" /\ first.type = "Weak"
            /\ first.add_value = add_value
            /\ first.rc # "Ok" => Len(driver_calls) = 1 /\ binder_ret.rc = first.rc
            /\ first.rc = "Ok" =>
                  /\ Len(driver_calls) = 2
                  /\ driver_calls[2].op = "adjust_refcount"
                  /\ driver_calls[2].type = "Strong"
                  /\ driver_calls[2].add_value = add_value
                  /\ binder_ret.rc = driver_calls[2].rc

\* the weak adjustment of increase_refcounts fails after an earlier increase
\* went through
C20_Witness ==
    /\ binder_ret.method = "increase_refcounts"
    /\ driver_calls[1].rc # "Ok"
    /\ weak_refs = 1 /\ strong_refs = 1

\* the last call was of a method whose reply holds a has-value flag, and the
\* reply it got is complete (it ends with a status); flag_at is the place of
\* the flag
FlaggedReply(method, flag_at) ==
    /\ binder_ret.method = method
    /\ binder_ret.answered
    /\ binder_ret.status # <<>>
    /\ Len(binder_ret.outputs) >= flag_at

\* the flag at flag_at decides what is read between it and the status: when
\* it is zero nothing is (the status is the item after the flag, and on
\* success the flag returned is false and the object the default, 0); when
\* it is nonzero one object is (the status is the second item after the
\* flag, and on success the object returned is the item after the flag)
FlagDecidesRead(flag_at, returned_before) ==
    IF binder_ret.outputs[flag_at] = 0
    THEN /\ binder_ret.status_at = flag_at + 1
         /\ binder_ret.rc = "Ok" =>
                binder_ret.out = returned_before \o << FALSE, 0 >>
    ELSE /\ binder_ret.status_at = flag_at + 2
         /\ binder_ret.rc = "Ok" =>
                binder_ret.out
                   = returned_before \o << TRUE, binder_ret.outputs[flag_at + 1] >>

\* C29: request_buffer and dequeue_buffer read the has-value flag before the
\* embedded object; with a zero flag read_sized is not called, the default
\* object is returned with flag false and the next item read is the trailing
\* status; with a nonzero flag exactly one read_sized comes before the status
\* read.
C29_FlagBeforeObject ==
    /\ FlaggedReply("request_buffer", 1) => FlagDecidesRead(1, <<>>)
    /\ FlaggedReply("dequeue_buffer", 2)
          => FlagDecidesRead(2, << binder_ret.outputs[1] >>)

\* dequeue_buffer returned without fences from a reply whose flag is zero
C29_Witness ==
    /\ FlaggedReply("dequeue_buffer", 2)
    /\ binder_ret.outputs[2] = 0
    /\ binder_ret.rc = "Ok"
    /\ binder_ret.out = << binder_ret.outputs[1], FALSE, 0 >>
    /\ binder_ret.status_at = 3

\* ================================================================
\* Properties of the command adapters (checked under SpecAdapter)
\* ================================================================

\* the last adapter call ran both passes
BothPasses == adapter_ret.adapter # "none" /\ adapter_ret.ctx.rc = "Ok"

\* the end of the bytes pass two wrote, relative to out_params.data_offset
RECURSIVE WrittenEnd(_, _)
WrittenEnd(writes, base) ==
    IF writes = <<>> THEN 0
    ELSE LET rest == WrittenEnd(Tail(writes), base)
             here == Head(writes).addr + Head(writes).size - base
         IN  IF here > rest THEN here ELSE rest

\* C18: for every adapter and every list of output parameters, the data size
\* computed in pass one (null-based walker, before_response_write per
\* output, stored in out_params.data_size) equals the offset the walker
\* reaches in pass two (based at out_params.data_offset,
\* after_response_write per output), which is where the bytes written end.
C18_TwoPassSizing ==
    BothPasses =>
        /\ adapter_ret.ctx.data_size = adapter_ret.ctx.raw_data_walker.offset
        /\ adapter_ret.ctx.raw_data_walker.base = adapter_ret.ctx.data_offset
        /\ adapter_ret.ctx.data_size
              = WrittenEnd(adapter_ret.ctx.writes, adapter_ret.ctx.data_offset)

\* outputs whose sizes and alignments differ, with a handle between them
C18_Witness ==
    /\ BothPasses
    /\ Len(adapter_ret.outs) = 3
    /\ adapter_ret.outs[1] = CopyType(1, 1)
    /\ adapter_ret.outs[2].kind = "handle"
    /\ adapter_ret.outs[3] = CopyType(8, 8)
    /\ adapter_ret.ctx.data_size = 16

\* ================================================================
\* Properties of the command loop (checked under SpecTable)
\* ================================================================

\* C30: for every request at most one command adapter is invoked and at most
\* one error response is written by the manager, whatever entries the command
\* table of the target object holds for the request id.
C30_AtMostOneAdapter ==
    lookup_ret.done =>
        /\ lookup_ret.adapters <= 1
        /\ Len(lookup_ret.written) <= 1

\* ================================================================
\* Specifications
\* ================================================================

ManagerNext ==
    \/ RegisterServer
    \/ RegisterMitmServer
    \/ RegisterSession
    \/ StartLoop
    \/ ProcessPanic
    \/ ProcessWaitError
    \/ ProcessAccept
    \/ ProcessReceiveError
    \/ ProcessRequest
    \/ ProcessControl
    \/ ProcessClose
    \/ ProcessInvalidCommand
    \/ DropManager

vars == <<dvars, svars, mvars, bvars, avars>>

\* a specification starts the parts it does not step in one fixed state
DomainIdle == DomainInit /\ ~dholder.is_mitm_service
ManagerIdle == ManagerInit /\ P = 0

OthersIdle == BinderInit /\ AdapterIdle /\ LookupIdle

InitDomain == DomainInit /\ SharedInit /\ ManagerIdle /\ OthersIdle
InitShared == DomainIdle /\ SharedInit /\ ManagerIdle /\ OthersIdle
Init == DomainIdle /\ SharedInit /\ ManagerInit /\ OthersIdle
InitBinder == DomainIdle /\ SharedInit /\ ManagerIdle /\ OthersIdle
InitAdapter ==
    DomainIdle /\ SharedInit /\ ManagerIdle /\ BinderInit /\ AdapterInit /\ LookupIdle
InitTable ==
    DomainIdle /\ SharedInit /\ ManagerIdle /\ BinderInit /\ AdapterIdle /\ LookupInit

SpecDomain == InitDomain /\ [][DomainNext]_vars

SpecShared == InitShared /\ [][SharedNext]_vars

SpecReset == InitShared /\ [][ResetNext]_vars

Spec == Init /\ [][ManagerNext]_vars

SpecBinder == InitBinder /\ [][BinderNext]_vars

SpecAdapter == InitAdapter /\ [][AdapterNext]_vars

SpecTable == InitTable /\ [][TableNext]_vars

\* ---------------------------------------------------------------- the frame of a port

\* a call of process() that handles a signaled port
PortHandled == calls' = calls + 1 /\ step'.kind = "port"

\* the last call received nothing, parsed and dispatched no command, sent
\* nothing upstream and replied to no session
NoSessionTraffic ==
    /\ step.delivered = EmptyBuffer
    /\ step.command = "none" /\ step.lookup = "none" /\ step.adapters = 0
    /\ step.sent = <<>> /\ step.upstream = <<>>
    /\ step.written = <<>> /\ step.replies = <<>>
    /\ step.destroyed = <<>>

\* server_holders is as before the last call, or one holder longer
AtMostOneAppended ==
    \/ server_holders = step.pre_holders
    \/ /\ Len(server_holders) = Len(step.pre_holders) + 1
       /\ SubSeq(server_holders, 1, Len(step.pre_holders)) = step.pre_holders

====
